---- MODULE Spec2Model ----
(***************************************************************************)
(* A model of EDHelper's event-reconstruction engine (edc/core/            *)
(* event_engine.py with the handler chain of edc/engine/handlers) and of   *)
(* its journal watcher (edc/core/journal_watcher.py).                      *)
(*                                                                         *)
(* Conventions                                                             *)
(*  - A journal record (a decoded JSON object) is a TLA+ record holding    *)
(*    exactly the keys that are present; event.get(k) is Get(e, k, d).     *)
(*  - Python dicts are functions; the empty dict is <<>>.                  *)
(*  - Text whose spacing matters (body names, organism names) is a         *)
(*    sequence of tokens, each a word or the one-blank token SP, so that   *)
(*    split/join/strip are computed and not assumed.                       *)
(*  - NONE stands for Python's None (or a missing key), BAD for a truthy   *)
(*    value of an unexpected JSON type; NOINT is "no integer here".        *)
(*  - Every decoded line is a fresh object (json.loads in the watcher), so *)
(*    records are values and no two folds share a dict.                    *)
(***************************************************************************)
EXTENDS Integers, Sequences, FiniteSets, TLC

VARIABLES
    state,          \* the GameState aggregate (edc/core/state.py)
    exo_values,     \* EventEngine.exo_values: the organism value table or none
    planet_values,  \* EventEngine.planet_values: the planet value table or none
    external_intel, \* EventEngine.external_intel: the advisory POI store
    ev,             \* the record handed to the last call of process
    raised,         \* whether that call raised to its caller
    msgs,           \* the notices that call returned
    nfold,          \* number of process calls so far (capped)
    journal,        \* the journal directory: what the game client has written
    watcher,        \* the JournalWatcher object and its position in run()
    forwarded,      \* the records emitted through event_received, in order
    io_fault,       \* the I/O fault of the journal directory: "none" so far, "open"
                    \* or "read" while opening or reading fails, "over" once cleared
    doc,            \* a reference document of the settings directory
    table,          \* the table object that caches the document
    answer          \* what the last query of a reference table returned

engineVars == <<state, exo_values, planet_values, external_intel, ev, raised, msgs, nfold>>
watcherVars == <<journal, watcher, forwarded, io_fault>>
refVars == <<doc, table, answer>>
vars == <<state, exo_values, planet_values, external_intel, ev, raised, msgs, nfold,
          journal, watcher, forwarded, io_fault, doc, table, answer>>

-----------------------------------------------------------------------------
(* Values *)

NONE == "~none"
BAD == "~bad"
NOINT == 0 - 999999
SP == " "
NoText == <<NONE>>
BadText == <<BAD>>

Get(e, k, d) == IF k \in DOMAIN e THEN e[k] ELSE d
Has(e, k) == k \in DOMAIN e

\* Python truthiness of a string-valued field, and isinstance(v, str)
TruthyS(v) == v \notin {NONE, ""}
IsStr(v) == v \notin {NONE, BAD}
\* a or b
OrS(a, b) == IF TruthyS(a) THEN a ELSE b
IsInt(v) == v # NOINT
TruthyT(v) == v \notin {NoText, <<>>}
IsStrT(v) == v \notin {NoText, BadText}
OrT(a, b) == IF TruthyT(a) THEN a ELSE b

Min(a, b) == IF a < b THEN a ELSE b
Max(a, b) == IF a > b THEN a ELSE b

\* dict[k] = v, dict.update(u), del dict[k]
Put(d, k, v) == [x \in DOMAIN d \cup {k} |-> IF x = k THEN v ELSE d[x]]
Update(d, u) == [x \in DOMAIN d \cup DOMAIN u |-> IF x \in DOMAIN u THEN u[x] ELSE d[x]]
Drop(d, ks) == [x \in DOMAIN d \ ks |-> d[x]]
EmptyDict == <<>>

RECURSIVE JoinWords(_)
JoinWords(ws) ==
    IF Len(ws) = 0 THEN <<>>
    ELSE IF Len(ws) = 1 THEN <<ws[1]>>
    ELSE <<ws[1], SP>> \o JoinWords(Tail(ws))

IsWord(t) == t # SP
SplitWords(v) == SelectSeq(v, IsWord)

\* EventEngine._norm_text: " ".join(v.split()), "" for a non-string
_norm_text(v) == IF ~IsStrT(v) THEN <<>> ELSE JoinWords(SplitWords(v))

RECURSIVE LStrip(_)
LStrip(v) == IF Len(v) > 0 /\ v[1] = SP THEN LStrip(Tail(v)) ELSE v

RECURSIVE RStrip(_)
RStrip(v) == IF Len(v) > 0 /\ v[Len(v)] = SP THEN RStrip(SubSeq(v, 1, Len(v) - 1)) ELSE v

\* str.strip()
Strip(v) == RStrip(LStrip(v))

\* index of the first blank of v, 0 when there is none
FirstSP(v) == IF \E i \in 1..Len(v) : v[i] = SP
              THEN CHOOSE i \in 1..Len(v) : v[i] = SP /\ \A j \in 1..(i - 1) : v[j] # SP
              ELSE 0

\* v.split(" ", 1)[0]
FirstWord(v) == IF FirstSP(v) = 0 THEN v ELSE SubSeq(v, 1, FirstSP(v) - 1)

\* index of the first " - " of v, 0 when there is none
FirstDash(v) ==
    LET hit(i) == v[i] = SP /\ v[i + 1] = "-" /\ v[i + 2] = SP
    IN IF \E i \in 1..(Len(v) - 2) : hit(i)
       THEN CHOOSE i \in 1..(Len(v) - 2) : hit(i) /\ \A j \in 1..(i - 1) : ~hit(j)
       ELSE 0

\* nm.split(" - ", 1)[0] and [1]
BeforeDash(v) == SubSeq(v, 1, FirstDash(v) - 1)
AfterDash(v) == SubSeq(v, FirstDash(v) + 3, Len(v))

-----------------------------------------------------------------------------
(* The session state and the reference tables *)

\* GameState(): the state after construction. Optional fields start as None,
\* the earnings ledgers at 0, the collections empty.
NewGameState ==
    [ commander |-> NONE,
      credits |-> NOINT,
      system |-> NONE,
      system_address |-> NOINT,
      system_allegiance |-> NONE,
      system_government |-> NONE,
      system_economy |-> NONE,
      system_security |-> NONE,
      population |-> NOINT,
      controlling_faction |-> NONE,
      factions |-> <<>>,
      system_controlling_power |-> NONE,
      system_powerplay_state |-> NONE,
      system_powers |-> <<>>,
      system_powerplay_conflict_progress |-> EmptyDict,
      pp_power |-> NONE,
      power |-> NONE,
      pp_enemy_alerts |-> <<>>,
      current_contact_alert |-> <<>>,
      combat_contacts |-> EmptyDict,
      combat_current_key |-> <<>>,
      cargo_count |-> NOINT,
      limpets |-> NOINT,
      cargo_inventory |-> <<>>,
      bodies |-> EmptyDict,
      system_body_count |-> NOINT,
      non_body_count |-> NOINT,
      body_id_to_name |-> EmptyDict,
      exo |-> EmptyDict,
      bio_signals |-> EmptyDict,
      bio_genuses |-> EmptyDict,
      geo_signals |-> EmptyDict,
      saa_signals |-> EmptyDict,
      system_signals |-> <<>>,
      external_pois |-> <<>>,
      last_event |-> NONE,
      last_body |-> NoText,
      last_codex |-> NoText,
      last_organic_scan |-> EmptyDict,
      in_hyperspace |-> FALSE,
      jump_star_class |-> NONE,
      star_class |-> NONE,
      pending_system |-> NONE,
      last_jump_type |-> NONE,
      visited_systems |-> {},
      session_exo_earnings |-> 0,
      session_exobio_earnings |-> 0,
      session_exploration_earnings |-> 0,
      session_codex_collected |-> 0,
      session_voucher_earnings |-> 0,
      community_goals |-> EmptyDict,
      last_target_ship |-> NONE,
      last_target_pilot |-> NONE,
      materials_raw |-> EmptyDict,
      materials_raw_loc |-> EmptyDict,
      materials_manufactured |-> EmptyDict,
      materials_manufactured_loc |-> EmptyDict,
      materials_encoded |-> EmptyDict,
      materials_encoded_loc |-> EmptyDict,
      shiplocker_items |-> EmptyDict,
      shiplocker_items_loc |-> EmptyDict ]

\* The star systems of the model and what the journal says about each.
SystemNames == {"Sol", "Achenar"}
AddressOf(n) == IF n = "Sol" THEN 1 ELSE 2
AllegianceOf(n) == IF n = "Sol" THEN "Federation" ELSE "Empire"
GovernmentOf(n) == IF n = "Sol" THEN "$government_Democracy;" ELSE "$government_Patronage;"
PowerOf(n) == IF n = "Sol" THEN "Zachary Hudson" ELSE "A. Lavigny-Duval"

\* ExternalIntel._k: strip and lower-case a system name
_k(n) == CASE n = "Sol" -> "sol" [] n = "Achenar" -> "achenar" [] OTHER -> ""

\* The advisory store as loaded from external_pois.json: one entry under the
\* name of Sol, one under the address of Achenar.
PoiStore ==
    [ systems |-> ("sol" :> <<"poi-sol">>),
      addresses |-> (2 :> <<"poi-achenar">>) ]

\* ExternalIntel.get_pois
get_pois(xi, system_name, system_address) ==
    (IF IsInt(system_address) /\ system_address \in DOMAIN xi.addresses
        THEN xi.addresses[system_address] ELSE <<>>)
    \o (IF _k(system_name) \in DOMAIN xi.systems THEN xi.systems[_k(system_name)] ELSE <<>>)

\* EventEngine._apply_external_intel
_apply_external_intel(s, xi, system_name, system_address) ==
    IF ~TruthyS(system_name)
    THEN [s EXCEPT !.external_pois = <<>>]
    ELSE [s EXCEPT !.external_pois = get_pois(xi, system_name, system_address)]

\* The organism value table (ExoValueTable.by_species): display name ->
\* (genus, base value).
G_STRATUM == <<"Stratum">>
G_BRAIN == <<"Brain", SP, "Trees">>
S_STRATUM == <<"Stratum", SP, "Tectonicas">>
S_BRAIN == <<"Roseum", SP, "Brain", SP, "Tree">>
S_CODEX_STRATUM == <<"Stratum", SP, "Tectonicas", SP, "-", SP, "Lime">>

ExoTable ==
    [ loaded |-> TRUE,
      by_species |-> (S_STRATUM :> [genus |-> G_STRATUM, base_value |-> 19])
                  @@ (S_BRAIN :> [genus |-> G_BRAIN, base_value |-> 16]) ]
NoExoTable == [loaded |-> FALSE, by_species |-> EmptyDict]

\* ExoValueTable.get_value
get_value(xv, species_localised) ==
    IF ~TruthyT(species_localised) THEN NOINT
    ELSE IF species_localised \in DOMAIN xv.by_species
         THEN xv.by_species[species_localised].base_value
         ELSE NOINT

-----------------------------------------------------------------------------
(* The outcome of a piece of process: the state it leaves, how control      *)
(* leaves it ("fall" through to what follows, "return" to the caller,       *)
(* "raise" an exception to the caller) and the notices so far.              *)

Fall(s, m) == [s |-> s, ret |-> "fall", msgs |-> m]
Return(s, m) == [s |-> s, ret |-> "return", msgs |-> m]
Raise(s, m) == [s |-> s, ret |-> "raise", msgs |-> m]

-----------------------------------------------------------------------------
(* System change *)

\* an arrival test that takes every named system for a new one
ArrivesAnywhere(s, new_sys) == TruthyS(new_sys)

\* event_engine.py 143-143: the record names a system other than the current
\* one; the same test opens the FSDJump handler (exploration.py 41)
ArrivesElsewhere(s, new_sys) == TruthyS(new_sys) /\ new_sys # s.system

\* a clearing that empties the contacts and leaves the current-contact pointer
ClearLocationKeepsPointer(s) ==
    [s EXCEPT !.bodies = EmptyDict, !.exo = EmptyDict, !.body_id_to_name = EmptyDict,
              !.bio_signals = EmptyDict, !.bio_genuses = EmptyDict, !.geo_signals = EmptyDict,
              !.non_body_count = NOINT, !.system_signals = <<>>, !.external_pois = <<>>,
              !.system_body_count = NOINT, !.system_allegiance = NONE,
              !.system_government = NONE, !.system_economy = NONE, !.system_security = NONE,
              !.population = NOINT, !.controlling_faction = NONE, !.factions = <<>>,
              !.system_controlling_power = NONE, !.system_powerplay_state = NONE,
              !.system_powers = <<>>, !.system_powerplay_conflict_progress = EmptyDict,
              !.pp_enemy_alerts = <<>>, !.combat_contacts = EmptyDict]

\* event_engine.py 144-170: the clearing of the Location branch
ClearLocation(s) ==
    [s EXCEPT !.bodies = EmptyDict, !.exo = EmptyDict, !.body_id_to_name = EmptyDict,
              !.bio_signals = EmptyDict, !.bio_genuses = EmptyDict, !.geo_signals = EmptyDict,
              !.non_body_count = NOINT, !.system_signals = <<>>, !.external_pois = <<>>,
              !.system_body_count = NOINT, !.system_allegiance = NONE,
              !.system_government = NONE, !.system_economy = NONE, !.system_security = NONE,
              !.population = NOINT, !.controlling_faction = NONE, !.factions = <<>>,
              !.system_controlling_power = NONE, !.system_powerplay_state = NONE,
              !.system_powers = <<>>, !.system_powerplay_conflict_progress = EmptyDict,
              !.pp_enemy_alerts = <<>>, !.combat_contacts = EmptyDict,
              !.combat_current_key = <<>>]

\* event_engine.py 206-232: the clearing of the StartJump branch
ClearStartJump(s) ==
    [s EXCEPT !.bodies = EmptyDict, !.exo = EmptyDict, !.body_id_to_name = EmptyDict,
              !.bio_signals = EmptyDict, !.bio_genuses = EmptyDict, !.geo_signals = EmptyDict,
              !.non_body_count = NOINT, !.system_signals = <<>>, !.external_pois = <<>>,
              !.system_body_count = NOINT, !.system_allegiance = NONE,
              !.system_government = NONE, !.system_economy = NONE, !.system_security = NONE,
              !.population = NOINT, !.controlling_faction = NONE, !.factions = <<>>,
              !.system_controlling_power = NONE, !.system_powerplay_state = NONE,
              !.system_powers = <<>>, !.system_powerplay_conflict_progress = EmptyDict,
              !.pp_enemy_alerts = <<>>, !.combat_contacts = EmptyDict,
              !.combat_current_key = <<>>]

\* a clearing that also resets the session: the ledgers and the materials
ClearFSDJumpAndSession(s, new_sys) ==
    [s EXCEPT !.bodies = EmptyDict, !.exo = EmptyDict, !.body_id_to_name = EmptyDict,
              !.bio_signals = EmptyDict, !.bio_genuses = EmptyDict, !.geo_signals = EmptyDict,
              !.non_body_count = NOINT, !.system_signals = <<>>, !.external_pois = <<>>,
              !.system_body_count = NOINT, !.system_allegiance = NONE,
              !.system_government = NONE, !.system_economy = NONE, !.system_security = NONE,
              !.population = NOINT, !.controlling_faction = NONE, !.factions = <<>>,
              !.system_controlling_power = NONE, !.system_powerplay_state = NONE,
              !.system_powers = <<>>, !.system_powerplay_conflict_progress = EmptyDict,
              !.visited_systems = @ \cup {new_sys},
              !.session_exploration_earnings = 0, !.materials_raw = EmptyDict]

\* exploration.py 42-66: the clearing of the FSDJump handler
ClearFSDJump(s, new_sys) ==
    [s EXCEPT !.bodies = EmptyDict, !.exo = EmptyDict, !.body_id_to_name = EmptyDict,
              !.bio_signals = EmptyDict, !.bio_genuses = EmptyDict, !.geo_signals = EmptyDict,
              !.non_body_count = NOINT, !.system_signals = <<>>, !.external_pois = <<>>,
              !.system_body_count = NOINT, !.system_allegiance = NONE,
              !.system_government = NONE, !.system_economy = NONE, !.system_security = NONE,
              !.population = NOINT, !.controlling_faction = NONE, !.factions = <<>>,
              !.system_controlling_power = NONE, !.system_powerplay_state = NONE,
              !.system_powers = <<>>, !.system_powerplay_conflict_progress = EmptyDict,
              !.visited_systems = @ \cup {new_sys}]

\* exploration._pretty_token on the tokens of the model: "$" and ";" are
\* stripped, a known category prefix dropped, "_" turned into a blank and the
\* first letter capitalised; a non-string is returned unchanged.
_pretty_token(v) ==
    CASE v = "$government_Democracy;" -> "Democracy"
      [] v = "$government_Patronage;" -> "Patronage"
      [] v = "$economy_Extraction;" -> "Extraction"
      [] v = "$SYSTEM_SECURITY_high;" -> "High"
      [] OTHER -> v

IsDict(x) == "nondict" \notin DOMAIN x
NonDict == [nondict |-> TRUE]

\* the strings of a Powers list: [p for p in pw if isinstance(p, str)]
StrsOf(pw) == SelectSeq(pw, IsStr)

\* event_engine.py 188-194: PowerplayConflictProgress as Power -> progress
RECURSIVE ConflictProgress(_)
ConflictProgress(recs) ==
    IF Len(recs) = 0 THEN EmptyDict
    ELSE LET r == recs[Len(recs)]
             rest == ConflictProgress(SubSeq(recs, 1, Len(recs) - 1))
         IN IF IsDict(r) /\ IsStr(Get(r, "Power", NONE)) /\ IsInt(Get(r, "ConflictProgress", NOINT))
            THEN Put(rest, r.Power, r.ConflictProgress)
            ELSE rest

\* event_engine.py 140-197: the Location branch of process
InlineLocation(s, e, xi) ==
    LET new_sys == Get(e, "StarSystem", s.system)
        s1 == IF ArrivesElsewhere(s, new_sys) THEN ClearLocation(s) ELSE s
        s2 == [s1 EXCEPT !.system = new_sys, !.in_hyperspace = FALSE, !.jump_star_class = NONE,
                         !.system_allegiance = Get(e, "SystemAllegiance", NONE),
                         !.system_government = OrS(Get(e, "SystemGovernment_Localised", NONE),
                                                   Get(e, "SystemGovernment", NONE)),
                         !.system_economy = OrS(Get(e, "SystemEconomy_Localised", NONE),
                                                Get(e, "SystemEconomy", NONE)),
                         !.system_security = OrS(Get(e, "SystemSecurity_Localised", NONE),
                                                 Get(e, "SystemSecurity", NONE)),
                         !.population = Get(e, "Population", NOINT)]
        cf == Get(e, "SystemFaction", EmptyDict)
        s3 == [s2 EXCEPT !.controlling_faction = Get(cf, "Name", NONE),
                         !.factions = Get(e, "Factions", <<>>),
                         !.system_controlling_power = Get(e, "ControllingPower", NONE),
                         !.system_powerplay_state = Get(e, "PowerplayState", NONE),
                         !.system_powers = StrsOf(Get(e, "Powers", <<>>)),
                         !.system_powerplay_conflict_progress =
                             ConflictProgress(Get(e, "PowerplayConflictProgress", <<>>))]
        s4 == _apply_external_intel(s3, xi, new_sys, Get(e, "SystemAddress", NOINT))
    IN IF ~IsDict(cf)
       THEN Raise(s2, <<>>)     \* cf.get on a non-dict: AttributeError
       ELSE Fall(s4, IF TruthyS(new_sys) THEN <<"Location">> ELSE <<>>)

\* event_engine.py 199-241: the StartJump branch of process
InlineStartJump(s, e, xi) ==
    IF Get(e, "JumpType", NONE) # "Hyperspace" THEN Fall(s, <<>>)
    ELSE LET target == Get(e, "StarSystem", NONE)
             sys == OrS(target, s.system)
             s1 == [ClearStartJump(s) EXCEPT !.system = sys, !.in_hyperspace = TRUE,
                                             !.jump_star_class = Get(e, "StarClass", NONE)]
         IN Fall(_apply_external_intel(s1, xi, sys, NOINT),
                 IF TruthyS(target) THEN <<"Jumping to">> ELSE <<>>)

\* exploration.py 39-108: the FSDJump handler
HandleFSDJump(s, e, xi) ==
    LET new_sys == Get(e, "StarSystem", NONE)
        s1 == IF ArrivesElsewhere(s, new_sys) THEN ClearFSDJump(s, new_sys) ELSE s
        addr == IF IsInt(Get(e, "SystemAddress", NOINT)) THEN e.SystemAddress ELSE s1.system_address
        sys == OrS(new_sys, s1.system)
        cf == Get(e, "SystemFaction", NonDict)
        s2 == [s1 EXCEPT
                 !.system = sys,
                 !.system_address = addr,
                 !.star_class = OrS(Get(e, "StarClass", NONE), s1.star_class),
                 !.system_allegiance = OrS(Get(e, "SystemAllegiance_Localised", NONE),
                                           OrS(_pretty_token(Get(e, "SystemAllegiance", NONE)),
                                               s1.system_allegiance)),
                 !.system_government = OrS(Get(e, "SystemGovernment_Localised", NONE),
                                           OrS(_pretty_token(Get(e, "SystemGovernment", NONE)),
                                               s1.system_government)),
                 !.system_economy = OrS(Get(e, "SystemEconomy_Localised", NONE),
                                        OrS(_pretty_token(Get(e, "SystemEconomy", NONE)),
                                            s1.system_economy)),
                 !.system_security = OrS(Get(e, "SystemSecurity_Localised", NONE),
                                         OrS(_pretty_token(Get(e, "SystemSecurity", NONE)),
                                             s1.system_security)),
                 !.population = IF IsInt(Get(e, "Population", NOINT)) THEN e.Population
                                ELSE s1.population,
                 !.controlling_faction = IF IsDict(cf) THEN Get(cf, "Name", NONE)
                                         ELSE s1.controlling_faction,
                 !.factions = IF Has(e, "Factions") THEN e.Factions ELSE s1.factions,
                 !.system_controlling_power = OrS(Get(e, "PowerplayState", NONE),
                                                  s1.system_controlling_power),
                 !.system_powerplay_state = OrS(Get(e, "PowerplayState", NONE),
                                                s1.system_powerplay_state),
                 !.system_powers = IF Has(e, "Powers") THEN e.Powers ELSE s1.system_powers]
                 \* PowerplayConflictProgress is a list in the journal, never a
                 \* dict: system_powerplay_conflict_progress keeps its value
    IN _apply_external_intel(s2, xi, sys, addr)

\* exploration.py 110-141: the Location handler
HandleLocation(s, e, xi) ==
    LET sys_name == Get(e, "StarSystem", NONE)
        sys == IF TruthyS(sys_name) THEN sys_name ELSE s.system
        addr == IF IsInt(Get(e, "SystemAddress", NOINT)) THEN e.SystemAddress ELSE s.system_address
        s2 == [s EXCEPT
                 !.system = sys,
                 !.system_address = addr,
                 !.star_class = OrS(Get(e, "StarClass", NONE), s.star_class),
                 !.system_allegiance = OrS(Get(e, "SystemAllegiance_Localised", NONE),
                                           OrS(_pretty_token(Get(e, "SystemAllegiance", NONE)),
                                               s.system_allegiance)),
                 !.system_government = OrS(Get(e, "SystemGovernment_Localised", NONE),
                                           OrS(_pretty_token(Get(e, "SystemGovernment", NONE)),
                                               s.system_government)),
                 !.system_economy = OrS(Get(e, "SystemEconomy_Localised", NONE),
                                        OrS(_pretty_token(Get(e, "SystemEconomy", NONE)),
                                            s.system_economy)),
                 !.system_security = OrS(Get(e, "SystemSecurity_Localised", NONE),
                                         OrS(_pretty_token(Get(e, "SystemSecurity", NONE)),
                                             s.system_security))]
    IN _apply_external_intel(s2, xi, sys, addr)

\* exploration.py 143-151: the StartJump handler
HandleStartJump(s, e) ==
    [s EXCEPT !.last_jump_type = OrS(Get(e, "JumpType", NONE), s.last_jump_type),
              !.pending_system = OrS(Get(e, "StarSystem", NONE), s.pending_system)]

-----------------------------------------------------------------------------
(* Inventories, ledgers, community goals, PowerPlay pledge *)

\* nm.strip().lower() on the item names of the model
LowerName(n) == CASE n = "Iron" -> "iron" [] n = "Health Pack" -> "health pack" [] OTHER -> n
\* key.replace("_", " ").title()
TitleName(k) == CASE k = "iron" -> "Iron" [] k = "nickel" -> "Nickel" [] OTHER -> k

WellFormedItem(rec) ==
    /\ IsDict(rec)
    /\ IsStr(Get(rec, "Name", NONE))
    /\ IsInt(Get(rec, "Count", NOINT))
    /\ LowerName(rec.Name) # ""

ItemLoc(rec) ==
    IF TruthyS(Get(rec, "Name_Localised", NONE)) THEN rec.Name_Localised
    ELSE TitleName(LowerName(rec.Name))

\* EventEngine._parse_materials_category: (counts, loc); counts[key] = cnt
RECURSIVE _parse_materials_category(_)
_parse_materials_category(items) ==
    IF Len(items) = 0 THEN [counts |-> EmptyDict, loc |-> EmptyDict]
    ELSE LET rec == items[Len(items)]
             rest == _parse_materials_category(SubSeq(items, 1, Len(items) - 1))
         IN IF ~WellFormedItem(rec) THEN rest
            ELSE [counts |-> Put(rest.counts, LowerName(rec.Name), rec.Count),
                  loc |-> Put(rest.loc, LowerName(rec.Name), ItemLoc(rec))]

\* EventEngine._parse_shiplocker_items: counts[key] = counts.get(key, 0) + cnt
RECURSIVE _parse_shiplocker_items(_)
_parse_shiplocker_items(items) ==
    IF Len(items) = 0 THEN [counts |-> EmptyDict, loc |-> EmptyDict]
    ELSE LET rec == items[Len(items)]
             rest == _parse_shiplocker_items(SubSeq(items, 1, Len(items) - 1))
         IN IF ~WellFormedItem(rec) THEN rest
            ELSE [counts |-> Put(rest.counts, LowerName(rec.Name),
                                 Get(rest.counts, LowerName(rec.Name), 0) + rec.Count),
                  loc |-> Put(rest.loc, LowerName(rec.Name), ItemLoc(rec))]

\* inventory.py 25-35: the Materials handler
HandleMaterials(s, e) ==
    LET raw == _parse_materials_category(Get(e, "Raw", <<>>))
        man == _parse_materials_category(Get(e, "Manufactured", <<>>))
        enc == _parse_materials_category(Get(e, "Encoded", <<>>))
    IN [s EXCEPT
          !.materials_raw = IF Has(e, "Raw") THEN raw.counts ELSE @,
          !.materials_raw_loc = IF Has(e, "Raw") THEN raw.loc ELSE @,
          !.materials_manufactured = IF Has(e, "Manufactured") THEN man.counts ELSE @,
          !.materials_manufactured_loc = IF Has(e, "Manufactured") THEN man.loc ELSE @,
          !.materials_encoded = IF Has(e, "Encoded") THEN enc.counts ELSE @,
          !.materials_encoded_loc = IF Has(e, "Encoded") THEN enc.loc ELSE @]

\* inventory.py 37-42: the ShipLocker handler
HandleShipLocker(s, e) ==
    IF ~Has(e, "Items") THEN s
    ELSE LET p == _parse_shiplocker_items(e.Items)
         IN [s EXCEPT !.shiplocker_items = p.counts, !.shiplocker_items_loc = p.loc]

\* index of the first element of a Cargo inventory that stops the loop of
\* event_engine.py 372-375: the first non-object (item.get raises) or the
\* first "drones" entry; 0 when the loop runs to the end
CargoStop(inv) ==
    LET stop(i) == ~IsDict(inv[i]) \/ Get(inv[i], "Name", NONE) = "drones"
    IN IF \E i \in 1..Len(inv) : stop(i)
       THEN CHOOSE i \in 1..Len(inv) : stop(i) /\ \A j \in 1..(i - 1) : ~stop(j)
       ELSE 0

\* event_engine.py 369-377: the Cargo branch of process
InlineCargo(s, e) ==
    LET inv == Get(e, "Inventory", <<>>)
        i == CargoStop(inv)
        s1 == [s EXCEPT !.cargo_count = Get(e, "Count", NOINT)]
    IN IF i > 0 /\ ~IsDict(inv[i]) THEN Raise(s1, <<>>)
       ELSE Fall([s1 EXCEPT !.limpets = IF i = 0 THEN 0
                                        ELSE IF IsInt(Get(inv[i], "Count", NOINT))
                                             THEN inv[i].Count ELSE 0],
                 <<"Cargo">>)

\* inventory.py 51-56: the Cargo handler
HandleCargo(s, e) ==
    IF Has(e, "Inventory") THEN [s EXCEPT !.cargo_inventory = e.Inventory] ELSE s

\* exploration.py 252-258: the MultiSellExplorationData handler
HandleMultiSell(s, e) ==
    IF IsInt(Get(e, "TotalEarnings", NOINT))
    THEN [s EXCEPT !.session_exploration_earnings = @ + e.TotalEarnings]
    ELSE s

\* misc.py 10-16: the RedeemVoucher handler
HandleRedeemVoucher(s, e) ==
    IF IsInt(Get(e, "Amount", NOINT))
    THEN [s EXCEPT !.session_voucher_earnings = @ + e.Amount]
    ELSE s

\* Value + Bonus over the well-typed figures of a BioData list
RECURSIVE BioDataTotal(_)
BioDataTotal(items) ==
    IF Len(items) = 0 THEN 0
    ELSE (IF IsInt(Get(items[1], "Value", 0)) THEN Get(items[1], "Value", 0) ELSE 0)
         + (IF IsInt(Get(items[1], "Bonus", 0)) THEN Get(items[1], "Bonus", 0) ELSE 0)
         + BioDataTotal(Tail(items))

\* event_engine.py 811-823: the SellOrganicData branch of process
InlineSellOrganicData(s, e) ==
    LET items == Get(e, "BioData", <<>>)
    IN IF \E i \in 1..Len(items) : ~IsDict(items[i])
       THEN Raise(s, <<>>)       \* item.get on a non-dict: AttributeError
       ELSE IF BioDataTotal(items) > 0
            THEN Fall([s EXCEPT !.session_exo_earnings = @ + BioDataTotal(items)],
                      <<"Exobiology sold">>)
            ELSE Fall(s, <<>>)

\* exobio.py 37-43: the SellOrganicData handler
HandleSellOrganicData(s, e) ==
    IF IsInt(Get(e, "BioDataValue", NOINT))
    THEN [s EXCEPT !.session_exobio_earnings = @ + e.BioDataValue]
    ELSE s

\* misc.py 25: the title a joined goal gets
GoalTitle(s, e) ==
    OrS(Get(e, "Name", NONE), Get(Get(s.community_goals, e.CGID, EmptyDict), "Title", NONE))

\* misc.py 18-33: the CommunityGoalJoin handler
HandleCommunityGoalJoin(s, e) ==
    IF ~IsInt(Get(e, "CGID", NOINT)) THEN s
    ELSE LET rec == Get(s.community_goals, e.CGID, EmptyDict)
             upd == [CGID |-> e.CGID,
                     Title |-> GoalTitle(s, e),
                     SystemName |-> OrS(Get(e, "System", NONE), Get(rec, "SystemName", NONE))]
         IN [s EXCEPT !.community_goals = Put(@, e.CGID, Update(rec, upd))]

\* misc.py 35-41: the CommunityGoal handler
HandleCommunityGoal(s, e) ==
    IF ~IsInt(Get(e, "CGID", NOINT)) THEN s
    ELSE [s EXCEPT !.community_goals =
            Put(@, e.CGID, Update(Get(s.community_goals, e.CGID, EmptyDict), e))]

\* event_engine.py 362-367: the Powerplay branch of process
InlinePowerplay(s, e) ==
    Fall([s EXCEPT !.pp_power = Get(e, "Power", NONE)],
         IF TruthyS(Get(e, "Power", NONE)) THEN <<"PP">> ELSE <<>>)

\* powerplay.py 10-25: the Powerplay handler
HandlePowerplay(s, e) ==
    [s EXCEPT !.power = OrS(Get(e, "Power", NONE), s.power)]

-----------------------------------------------------------------------------
(* Planet values *)

\* planet_values._norm on the planet classes of the model: lower-case
\* letters and digits only
_norm(pc) ==
    CASE pc \in {"Water world", "Water World"} -> "waterworld"
      [] pc = "High metal content body" -> "highmetalcontentbody"
      [] pc = "High Metal Content Planet" -> "highmetalcontentplanet"
      [] pc = "Nebula cloud" -> "nebulacloud"
      [] OTHER -> ""

\* planet_values.py 75-86: the alias table, on normalised names
Aliases(key) ==
    CASE key = "highmetalcontentbody" -> "highmetalcontentplanet"
      [] key = "waterworld" -> "waterworld"
      [] OTHER -> ""

\* PlanetValueTable._rows as loaded from planet_values.json
PlanetRows ==
       (<<"Water World", FALSE>> :> [fss |-> 10, fss_dss |-> 11, fss_fd |-> 12, fss_fd_dss |-> 13])
    @@ (<<"Water World", TRUE>> :> [fss |-> 20, fss_dss |-> 21, fss_fd |-> 22, fss_fd_dss |-> 23])
    @@ (<<"High Metal Content Planet", FALSE>> :>
            [fss |-> 30, fss_dss |-> 31, fss_fd |-> 32, fss_fd_dss |-> 33])
PlanetTable == [loaded |-> TRUE, rows |-> PlanetRows]
NoPlanetTable == [loaded |-> FALSE, rows |-> EmptyDict]

\* PlanetValueTable._type_norm_map
TypeNormMap(pv) ==
    LET types == {k[1] : k \in DOMAIN pv.rows}
    IN [n \in {_norm(pt) : pt \in types} |-> CHOOSE pt \in types : _norm(pt) = n]

\* PlanetValueTable._canonical_type; NONE when the class is unknown
_canonical_type(pv, planet_class) ==
    IF ~TruthyS(planet_class) THEN NONE
    ELSE IF _norm(planet_class) \in DOMAIN TypeNormMap(pv)
         THEN TypeNormMap(pv)[_norm(planet_class)]
    ELSE IF Aliases(_norm(planet_class)) \in DOMAIN TypeNormMap(pv)
         THEN TypeNormMap(pv)[Aliases(_norm(planet_class))]
    ELSE NONE

\* an estimate that reads the first-discovered figures for a mapped body and
\* the mapped figures for a first-discovered one
estimate_swapped(pv, planet_class, terraformable, mapped, first_discovered) ==
    LET pt == _canonical_type(pv, planet_class)
    IN IF pt = NONE THEN NOINT
       ELSE IF <<pt, terraformable>> \notin DOMAIN pv.rows THEN NOINT
       ELSE LET row == pv.rows[<<pt, terraformable>>]
            IN IF first_discovered /\ mapped THEN row.fss_fd_dss
               ELSE IF first_discovered /\ ~mapped THEN row.fss_dss
               ELSE IF ~first_discovered /\ mapped THEN row.fss_fd
               ELSE row.fss

\* PlanetValueTable.estimate; NOINT for None
estimate(pv, planet_class, terraformable, mapped, first_discovered) ==
    LET pt == _canonical_type(pv, planet_class)
    IN IF pt = NONE THEN NOINT
       ELSE IF <<pt, terraformable>> \notin DOMAIN pv.rows THEN NOINT
       ELSE LET row == pv.rows[<<pt, terraformable>>]
            IN IF first_discovered /\ mapped THEN row.fss_fd_dss
               ELSE IF first_discovered /\ ~mapped THEN row.fss_fd
               ELSE IF ~first_discovered /\ mapped THEN row.fss_dss
               ELSE row.fss

-----------------------------------------------------------------------------
(* Bodies and body signals *)

\* terraform_state.lower() on the values of the model
LowerTS(ts) == CASE ts = "Terraformable" -> "terraformable"
                 [] ts = "Not Terraformable" -> "not terraformable"
                 [] OTHER -> ts

\* the signal/genus attachments of event_engine.py 429-434
Attachments(s, body) ==
       (IF body \in DOMAIN s.bio_signals THEN [BioSignals |-> s.bio_signals[body]] ELSE EmptyDict)
    @@ (IF body \in DOMAIN s.bio_genuses THEN [BioGenuses |-> s.bio_genuses[body]] ELSE EmptyDict)
    @@ (IF body \in DOMAIN s.geo_signals THEN [GeoSignals |-> s.geo_signals[body]] ELSE EmptyDict)

\* event_engine.py 379-435: the Scan branch of process. The display fields
\* copied verbatim into the record (DistanceLS, Landable, Volcanism,
\* Materials) are left out.
InlineScan(s, e, pv) ==
    LET body == _norm_text(Get(e, "BodyName", NoText))
        planet_class == OrS(Get(e, "PlanetClass", NONE), "")
        body_id == Get(e, "BodyID", NOINT)
        s1 == IF IsInt(body_id) THEN [s EXCEPT !.body_id_to_name = Put(@, body_id, body)] ELSE s
        terraform_state == OrS(Get(e, "TerraformState", NONE), "")
        terraformable == TruthyS(terraform_state) /\ LowerTS(terraform_state) # "not terraformable"
        was_discovered == Get(e, "WasDiscovered", FALSE)
        was_mapped == Get(e, "WasMapped", FALSE)
        est == IF pv.loaded THEN estimate(pv, planet_class, terraformable, was_mapped, ~was_discovered)
               ELSE NOINT
        rec == Update(Update(Get(s1.bodies, body, EmptyDict),
                             [BodyName |-> body, BodyID |-> body_id, PlanetClass |-> planet_class,
                              Terraformable |-> terraformable, FirstDiscovered |-> ~was_discovered,
                              Mapped |-> was_mapped, EstimatedValue |-> est]),
                      Attachments(s1, body))
    IN IF body = <<>> THEN Fall(s, <<>>)
       ELSE IF planet_class = "" THEN Return(s, <<>>)
       ELSE IF terraform_state = BAD THEN Raise(s1, <<>>)  \* .lower() on a non-string
       ELSE Fall([s1 EXCEPT !.bodies = Put(@, body, rec)], <<>>)

\* exploration.py 153-174: the Scan handler. planet_values has no
\* estimate_value method: the call raises AttributeError inside the handler's
\* own try and body_values is never written.
HandleScan(s, e) ==
    LET body_name == Get(e, "BodyName", NoText)
        named == IsStrT(body_name) /\ Strip(body_name) # <<>>
    IN IF ~named THEN s
       ELSE [s EXCEPT !.body_id_to_name = IF IsInt(Get(e, "BodyID", NOINT))
                                          THEN Put(@, e.BodyID, body_name) ELSE @,
                      !.last_body = body_name,
                      !.bodies = Put(@, body_name, e)]

\* event_engine.py 437-452: the SAAScanComplete branch of process
InlineSAAScanComplete(s, e, pv) ==
    LET body == _norm_text(Get(e, "BodyName", NoText))
    IN IF body = <<>> \/ body \notin DOMAIN s.bodies THEN Fall(s, <<>>)
       ELSE LET rec == s.bodies[body]
                planet_class == Get(rec, "PlanetClass", "")
                new == IF pv.loaded /\ TruthyS(planet_class)
                       THEN Update(rec, [Mapped |-> TRUE,
                                         EstimatedValue |->
                                            estimate(pv, planet_class,
                                                     Get(rec, "Terraformable", FALSE), TRUE,
                                                     Get(rec, "FirstDiscovered", FALSE))])
                       ELSE Update(rec, [Mapped |-> TRUE])
            IN Fall([s EXCEPT !.bodies = Put(@, body, new)], <<>>)

\* exploration.py 176-183: the SAAScanComplete handler
HandleSAAScanComplete(s, e) ==
    LET body == Get(e, "BodyName", NoText)
    IN IF IsStrT(body) /\ Strip(body) # <<>>
       THEN [s EXCEPT !.bodies = Put(@, body, Update(Get(s.bodies, body, EmptyDict),
                                                     [SAAScanComplete |-> TRUE]))]
       ELSE s

\* event_engine.py 454-461 and exploration.py 185-193: FSSDiscoveryScan
\* (the branch of process and the handler do the same)
FoldFSSDiscoveryScan(s, e) ==
    [s EXCEPT !.system_body_count = IF IsInt(Get(e, "BodyCount", NOINT)) THEN e.BodyCount ELSE @,
              !.non_body_count = IF IsInt(Get(e, "NonBodyCount", NOINT))
                                 THEN e.NonBodyCount ELSE @]

\* "biological" in t.lower() or tl.strip().lower() == "biological"
IsBio(sig) == Get(sig, "Type", NONE) = "$SAA_SignalType_Biological;"
              \/ Get(sig, "Type_Localised", NONE) = "Biological"
IsGeo(sig) == Get(sig, "Type", NONE) = "$SAA_SignalType_Geological;"
              \/ Get(sig, "Type_Localised", NONE) = "Geological"

\* the loops of event_engine.py 520-533 and 567-579: the Count of the last
\* matching entry that has an integer Count, 0 when there is none
RECURSIVE BioCount(_)
BioCount(sigs) ==
    IF Len(sigs) = 0 THEN 0
    ELSE LET sig == sigs[Len(sigs)]
         IN IF IsBio(sig) /\ IsInt(Get(sig, "Count", 0)) THEN Get(sig, "Count", 0)
            ELSE BioCount(SubSeq(sigs, 1, Len(sigs) - 1))

RECURSIVE GeoCount(_)
GeoCount(sigs) ==
    IF Len(sigs) = 0 THEN 0
    ELSE LET sig == sigs[Len(sigs)]
         IN IF IsGeo(sig) /\ IsInt(Get(sig, "Count", 0)) THEN Get(sig, "Count", 0)
            ELSE GeoCount(SubSeq(sigs, 1, Len(sigs) - 1))

\* the placeholder body record of event_engine.py 541-550 and 605-614
PlaceholderBody(body, body_id) ==
    [BodyName |-> body, BodyID |-> body_id, PlanetClass |-> "", EstimatedValue |-> NOINT,
     Terraformable |-> FALSE, FirstDiscovered |-> FALSE, Mapped |-> FALSE]

\* event_engine.py 510-555: the FSSBodySignals branch of process
InlineFSSBodySignals(s, e) ==
    LET body == _norm_text(Get(e, "BodyName", NoText))
        body_id == Get(e, "BodyID", NOINT)
        sigs == Get(e, "Signals", <<>>)
        s1 == IF IsInt(body_id) THEN [s EXCEPT !.body_id_to_name = Put(@, body_id, body)] ELSE s
        rec0 == Get(s1.bodies, body, PlaceholderBody(body, body_id))
        rec1 == IF IsInt(body_id) THEN Update(rec0, [BodyID |-> body_id]) ELSE rec0
        rec == Update(rec1, [BioSignals |-> BioCount(sigs), GeoSignals |-> GeoCount(sigs)])
    IN IF body = <<>> THEN Return(s, <<>>)
       ELSE IF \E i \in 1..Len(sigs) : ~IsDict(sigs[i]) THEN Raise(s1, <<>>)
       ELSE Fall([s1 EXCEPT !.bio_signals = Put(@, body, BioCount(sigs)),
                            !.geo_signals = Put(@, body, GeoCount(sigs)),
                            !.bodies = Put(@, body, rec)], <<>>)

\* the Genuses list of event_engine.py 583-600: normalised names of the
\* object entries, without repeats, in order
RECURSIVE GenusNames(_)
GenusNames(gs) ==
    IF Len(gs) = 0 THEN <<>>
    ELSE LET g == gs[Len(gs)]
             rest == GenusNames(SubSeq(gs, 1, Len(gs) - 1))
             gn == IF IsDict(g)
                   THEN _norm_text(OrT(Get(g, "Genus_Localised", NoText), Get(g, "Genus", NoText)))
                   ELSE <<>>
         IN IF gn = <<>> \/ \E i \in 1..Len(rest) : rest[i] = gn THEN rest
            ELSE Append(rest, gn)

\* event_engine.py 557-621: the SAASignalsFound branch of process
InlineSAASignalsFound(s, e) ==
    LET body == _norm_text(Get(e, "BodyName", NoText))
        body_id == Get(e, "BodyID", NOINT)
        sigs == Get(e, "Signals", <<>>)
        genuses == GenusNames(Get(e, "Genuses", <<>>))
        s1 == IF IsInt(body_id) THEN [s EXCEPT !.body_id_to_name = Put(@, body_id, body)] ELSE s
        s2 == [s1 EXCEPT !.bio_signals = IF BioCount(sigs) # 0 THEN Put(@, body, BioCount(sigs))
                                         ELSE @,
                         !.bio_genuses = IF genuses # <<>> THEN Put(@, body, genuses) ELSE @]
        rec0 == Get(s2.bodies, body, PlaceholderBody(body, body_id))
        rec1 == IF IsInt(body_id) THEN Update(rec0, [BodyID |-> body_id]) ELSE rec0
        rec == Update(rec1,
                 [BioSignals |-> Get(s2.bio_signals, body, Get(rec1, "BioSignals", 0)),
                  BioGenuses |-> Get(s2.bio_genuses, body, Get(rec1, "BioGenuses", <<>>)),
                  GeoSignals |-> Get(s2.geo_signals, body, Get(rec1, "GeoSignals", 0))])
    IN IF body = <<>> THEN Return(s, <<>>)
       ELSE IF \E i \in 1..Len(sigs) : ~IsDict(sigs[i]) THEN Raise(s1, <<>>)
       ELSE Fall([s2 EXCEPT !.bodies = Put(@, body, rec)], <<>>)

\* exploration.py 222-243: the SAASignalsFound handler. The entries of a
\* Signals list carry no Genus key, so the handler's genus list stays empty.
HandleSAASignalsFound(s, e) ==
    LET body == Get(e, "BodyName", NoText)
    IN IF IsStrT(body) /\ Strip(body) # <<>> /\ Has(e, "Signals")
       THEN [s EXCEPT !.saa_signals = Put(@, body, e.Signals)]
       ELSE s

-----------------------------------------------------------------------------
(* Exobiology *)

(* An exo key f"{body_id}|{genus}|{species}" is the sequence of the body    *)
(* id, a bar, the tokens of the genus, a bar and the tokens of the species; *)
(* k.split("|") cuts it at its bars. The names of the model hold no bar, so *)
(* no key extends another by "|..." and the legacy-key loops of             *)
(* event_engine.py 654-672 and 785-791 find nothing; a name may be the      *)
(* word CODEX.                                                              *)
BAR == "|"
CODEX == <<"CODEX">>
ExoKey(body_id, genus, species) == <<body_id, BAR>> \o genus \o <<BAR>> \o species

\* index of the first bar of the tokens v, 0 when there is none
FirstBar(v) == IF \E i \in 1..Len(v) : v[i] = BAR
               THEN CHOOSE i \in 1..Len(v) : v[i] = BAR /\ \A j \in 1..(i - 1) : v[j] # BAR
               ELSE 0

\* v.split("|") of a text v
RECURSIVE SplitBar(_)
SplitBar(v) ==
    IF FirstBar(v) = 0 THEN <<v>>
    ELSE <<SubSeq(v, 1, FirstBar(v) - 1)>> \o SplitBar(SubSeq(v, FirstBar(v) + 1, Len(v)))

\* k.split("|") of a key k: the digits of the body id hold no bar
KeyParts(k) == << <<k[1]>> >> \o SplitBar(SubSeq(k, 3, Len(k)))

\* scan_type.lower() on the scan types of the model
LowerST(st) == CASE st = "Log" -> "log" [] st = "Sample" -> "sample"
                 [] st = "Analyse" -> "analyse" [] OTHER -> st

\* event_engine.py 633-646: the placeholder keys a ScanOrganic record removes
PlaceholdersOf(exo, body_id, genus) ==
    {k \in DOMAIN exo :
        /\ k[1] = body_id /\ k[2] = BAR               \* k.startswith(prefix)
        /\ Len(KeyParts(k)) >= 3
        /\ KeyParts(k)[3] = CODEX
        /\ _norm_text(KeyParts(k)[2]) = genus}

\* a progress rule whose Log counts like a Sample
NextProgressLogCounts(progress, st) ==
    IF st = "log" THEN Min(3, Max(progress, 0) + 1)
    ELSE IF st = "sample" THEN Min(3, Max(progress, 0) + 1)
    ELSE IF st = "analyse" THEN Max(progress, 3)
    ELSE progress

\* a progress rule whose Sample has no upper limit
NextProgressUncapped(progress, st) ==
    IF st = "log" THEN Max(progress, 1)
    ELSE IF st = "sample" THEN Max(progress, 0) + 1
    ELSE IF st = "analyse" THEN Max(progress, 3)
    ELSE progress

\* event_engine.py 692-701: the progress after a scan of type st
NextProgress(progress, st) ==
    IF st = "log" THEN Max(progress, 1)
    ELSE IF st = "sample" THEN Min(3, Max(progress, 0) + 1)
    ELSE IF st = "analyse" THEN Max(progress, 3)
    ELSE progress

\* event_engine.py 623-706: the ScanOrganic branch of process
InlineScanOrganic(s, e, xv) ==
    LET scan_type == OrS(Get(e, "ScanType", NONE), "")
        genus == OrT(_norm_text(OrT(Get(e, "Genus_Localised", NoText), Get(e, "Genus", NoText))),
                     <<"Unknown", SP, "Genus">>)
        species == OrT(_norm_text(OrT(Get(e, "Species_Localised", NoText),
                                      Get(e, "Species", NoText))),
                       <<"Unknown", SP, "Species">>)
        variant == _norm_text(OrT(Get(e, "Variant_Localised", NoText),
                                  OrT(Get(e, "Variant", NoText), <<>>)))
        body_id == Get(e, "Body", NOINT)
        exo1 == Drop(s.exo, PlaceholdersOf(s.exo, body_id, genus))
        key == ExoKey(body_id, genus, species)
        rec0 == Get(exo1, key, EmptyDict)
        rec1 == Update(rec0, [BodyID |-> body_id, Genus |-> genus, Species |-> species,
                              Variant |-> IF variant # <<>> THEN variant
                                          ELSE OrT(Get(rec0, "Variant", <<>>), <<>>),
                              LastScanType |-> scan_type])
        val == IF IsInt(get_value(xv, variant)) THEN get_value(xv, variant)
               ELSE get_value(xv, species)
        rec2 == IF xv.loaded /\ IsInt(val) THEN Update(rec1, [BaseValue |-> val]) ELSE rec1
        st == LowerST(scan_type)
        progress == NextProgress(Get(rec2, "Samples", 0), st)
        rec == Update(rec2, [Samples |-> progress,
                             Complete |-> (progress >= 3 \/ st = "analyse")])
    IN IF scan_type = BAD THEN Raise(s, <<>>)      \* .strip() on a non-string
       ELSE IF ~IsInt(body_id) THEN Return(s, <<>>)
       ELSE Fall([s EXCEPT !.exo = Put(exo1, key, rec)], <<>>)

\* exobio.py 10-35: the ScanOrganic handler. exo_values has no
\* estimate_value method: the call raises AttributeError inside the handler's
\* own try and last_organic_value is never written.
HandleScanOrganic(s, e) ==
    LET body == Get(e, "BodyName", NoText)
    IN [s EXCEPT !.last_body = IF IsStrT(body) /\ Strip(body) # <<>> THEN body ELSE @,
                 !.last_organic_scan = e]

\* event_engine.py 725-738: a record of this body and genus that is not a
\* CODEX placeholder exists
HasRealRecord(exo, body_id, genus) ==
    \E k \in DOMAIN exo :
        /\ Get(exo[k], "BodyID", NOINT) = body_id
        /\ Get(exo[k], "LastScanType", "") # "CODEX"
        /\ Strip(Get(exo[k], "Genus", <<>>)) = genus

\* event_engine.py 708-809: the CodexEntry branch of process
InlineCodexEntry(s, e, xv) ==
    LET body_id == Get(e, "BodyID", NOINT)
        name_loc == OrT(Get(e, "Name_Localised", NoText), <<>>)
        v == Get(e, "VoucherAmount", NOINT)
        s1 == IF IsInt(v) /\ v > 0 THEN [s EXCEPT !.session_codex_collected = @ + v] ELSE s
        nm == Strip(name_loc)
        genus0 == _norm_text(Strip(FirstWord(nm)))
        dashed == FirstDash(nm) # 0
        short == Strip(BeforeDash(nm))
        exo_key == IF ~xv.loaded THEN NoText
                   ELSE IF nm \in DOMAIN xv.by_species THEN nm
                   ELSE IF dashed /\ short \in DOMAIN xv.by_species THEN short
                   ELSE NoText
        genus == IF exo_key # NoText THEN OrT(xv.by_species[exo_key].genus, genus0) ELSE genus0
        pot == IF exo_key # NoText THEN xv.by_species[exo_key].base_value ELSE NOINT
        species_txt == IF xv.loaded /\ nm \in DOMAIN xv.by_species THEN nm
                       ELSE IF dashed THEN short ELSE nm
        variant_txt == IF dashed THEN Strip(AfterDash(nm)) ELSE <<>>
        codex_key == ExoKey(body_id, genus, CODEX)
        rec == Update(Get(s1.exo, codex_key, EmptyDict),
                      [BodyID |-> body_id, Genus |-> genus, Species |-> species_txt,
                       Variant |-> variant_txt, Samples |-> 0, Complete |-> FALSE,
                       LastScanType |-> "CODEX", CodexEntryID |-> Get(e, "EntryID", NOINT),
                       CodexName |-> nm, BaseValue |-> pot, PotentialValue |-> pot])
    IN IF ~IsInt(body_id) \/ ~IsStrT(name_loc) \/ nm = <<>> THEN Return(s1, <<>>)
       ELSE IF genus0 = <<>> THEN Return(s1, <<>>)
       ELSE IF HasRealRecord(s1.exo, body_id, genus0) THEN Return(s1, <<>>)
       ELSE Fall([s1 EXCEPT !.exo = Put(@, codex_key, rec)], <<>>)

\* exploration.py 245-250: the CodexEntry handler
HandleCodexEntry(s, e) ==
    LET entry == OrT(Get(e, "Name_Localised", NoText), Get(e, "Name", NoText))
    IN IF IsStrT(entry) /\ Strip(entry) # <<>> THEN [s EXCEPT !.last_codex = Strip(entry)] ELSE s

-----------------------------------------------------------------------------
(* Combat contacts and system signals *)

\* event_engine.py 319: the bounty threshold of the high-bounty rule
BountyThreshold == 500000
\* event_engine.py 255: the final scan stage
FinalScanStage == 3
\* event_engine.py 505: max_sigs, the cap of the discovered-signal list; 200 in
\* the program, scaled down so that a handful of records reaches it
max_sigs == 2

\* rank_name.lower() in {"dangerous", "deadly", "elite"}
TopRank(rank_name) == rank_name \in {"Dangerous", "Deadly", "Elite"}

\* the notice text of event_engine.py 336-350, as its parts
AlertText(pp_enemy, pilot, ship, faction, rank_name, target_power, is_wanted, bounty) ==
    [kind |-> IF pp_enemy THEN "PP enemy" ELSE "High bounty",
     who |-> SelectSeq(<<pilot, ship, faction>>, TruthyS),
     rank |-> rank_name, power |-> target_power, wanted |-> is_wanted,
     bounty |-> IF IsInt(bounty) /\ bounty > 0 THEN bounty ELSE NOINT]
NoAlert == <<>>

\* a contact key that has the Power of the record as a fourth part
ContactKeyWithPower(e, pilot, ship, faction) ==
    << OrS(Get(e, "PilotName", NONE), OrS(pilot, "UNKNOWN")),
       OrS(Get(e, "Ship", NONE), OrS(ship, "UNKNOWN")),
       OrS(faction, "UNKNOWN"),
       IF IsStr(Get(e, "Power", NONE)) THEN e.Power ELSE "" >>

\* event_engine.py 284-289: the key of the combat contact row,
\* pilot_key|ship_key|faction_key
ContactKey(e, pilot, ship, faction) ==
    << OrS(Get(e, "PilotName", NONE), OrS(pilot, "UNKNOWN")),
       OrS(Get(e, "Ship", NONE), OrS(ship, "UNKNOWN")),
       OrS(faction, "UNKNOWN") >>

\* event_engine.py 243-360: the ShipTargeted branch of process
InlineShipTargeted(s, e) ==
    LET scan_stage == Get(e, "ScanStage", NOINT)
        target_power == IF IsStr(Get(e, "Power", NONE)) THEN e.Power ELSE ""
        is_wanted == Get(e, "LegalStatus", NONE) = "Wanted"
        bounty == Get(e, "Bounty", NOINT)
        rank_name == OrS(Get(e, "PilotRank", NONE), "")
        pilot == OrS(Get(e, "PilotName_Localised", NONE), OrS(Get(e, "PilotName", NONE), ""))
        ship == OrS(Get(e, "Ship_Localised", NONE), OrS(Get(e, "Ship", NONE), ""))
        faction == OrS(Get(e, "Faction", NONE), "")
        key == ContactKey(e, pilot, ship, faction)
        s1 == [s EXCEPT !.combat_contacts =
                            Put(@, key, [Pilot |-> pilot, Rank |-> rank_name, Ship |-> ship,
                                         Faction |-> faction, Power |-> target_power,
                                         Wanted |-> is_wanted, Bounty |-> bounty,
                                         LastSeen |-> Get(e, "timestamp", "")]),
                        !.combat_current_key = key]
        pledged == s.pp_power
        in_my_pp_space == IsStr(s.system_controlling_power) /\ s.system_controlling_power = pledged
        bounty_target == is_wanted /\ IsInt(bounty) /\ bounty >= BountyThreshold /\ TopRank(rank_name)
        pp_enemy == target_power # "" /\ target_power # pledged
        alert == AlertText(pp_enemy, pilot, ship, faction, rank_name, target_power, is_wanted, bounty)
    IN IF Has(e, "TargetLocked") /\ e.TargetLocked = FALSE
       THEN Return([s EXCEPT !.current_contact_alert = NoAlert, !.pp_enemy_alerts = <<>>,
                             !.combat_current_key = <<>>], <<>>)
       ELSE IF IsInt(scan_stage) /\ scan_stage < FinalScanStage THEN Return(s, <<>>)
       ELSE IF ~TruthyS(pledged) THEN Return(s1, <<>>)
       ELSE IF in_my_pp_space /\ ~(pp_enemy \/ bounty_target) THEN Return(s1, <<>>)
       ELSE IF ~in_my_pp_space /\ ~bounty_target THEN Return(s1, <<>>)
       ELSE Fall(IF s1.current_contact_alert # alert
                 THEN [s1 EXCEPT !.current_contact_alert = alert, !.pp_enemy_alerts = <<alert>>]
                 ELSE s1,
                 <<alert>>)

\* misc.py 43-51: the ShipTargeted handler
HandleShipTargeted(s, e) ==
    LET pilot == OrS(Get(e, "PilotName_Localised", NONE), Get(e, "PilotName", NONE))
    IN [s EXCEPT !.last_target_ship = IF TruthyS(Get(e, "Ship", NONE)) /\ IsStr(e.Ship)
                                      THEN e.Ship ELSE @,
                 !.last_target_pilot = IF TruthyS(pilot) /\ IsStr(pilot) THEN pilot ELSE @]

\* sl contains one of the keywords of event_engine.py 51, on the names of the model
IsPhenomenaName(n) == n \in {"Notable Stellar Phenomena", "Lagrange Cloud"}

\* EventEngine._classify_system_signal
_classify_system_signal(signal_name, uss_type, is_station, signal_type) ==
    IF IsStr(signal_type) /\ signal_type = "Megaship" THEN "Megaship"
    ELSE IF is_station = "True" THEN "Station"
    ELSE IF IsStr(uss_type) /\ TruthyS(uss_type) THEN "USS"
    ELSE IF IsStr(signal_name) /\ IsPhenomenaName(signal_name) THEN "Phenomena"
    ELSE "Other"

\* str(event.get("IsStation")) of a boolean or missing field
StationFlag(e) == IF ~Has(e, "IsStation") THEN "None" ELSE IF e.IsStation THEN "True" ELSE "False"

\* index of the first dict entry of sigs with this Key, 0 when there is none
IndexOfKey(sigs, key) ==
    LET hit(i) == IsDict(sigs[i]) /\ sigs[i].Key = key
    IN IF \E i \in 1..Len(sigs) : hit(i)
       THEN CHOOSE i \in 1..Len(sigs) : hit(i) /\ \A j \in 1..(i - 1) : ~hit(j)
       ELSE 0

\* sigs[-n:]
LastN(sigs, n) == IF Len(sigs) > n THEN SubSeq(sigs, Len(sigs) - n + 1, Len(sigs)) ELSE sigs

\* event_engine.py 463-508: the FSSSignalDiscovered branch of process
InlineFSSSignalDiscovered(s, e) ==
    LET sig_name == OrS(Get(e, "SignalName_Localised", NONE), OrS(Get(e, "SignalName", NONE), ""))
        sig_type == OrS(Get(e, "SignalType", NONE), OrS(Get(e, "SignalType_Localised", NONE), ""))
        uss == OrS(Get(e, "USSType_Localised", NONE), OrS(Get(e, "USSType", NONE), ""))
        threat == Get(e, "ThreatLevel", NOINT)
        key == <<sig_name, sig_type, uss, threat, StationFlag(e)>>
        entry == [Key |-> key, SignalName |-> sig_name, SignalType |-> sig_type, USSType |-> uss,
                  Category |-> _classify_system_signal(sig_name, uss, StationFlag(e), sig_type),
                  ThreatLevel |-> threat, IsStation |-> StationFlag(e),
                  LastSeen |-> Get(e, "timestamp", "")]
        idx == IndexOfKey(s.system_signals, key)
        sigs == IF idx = 0 THEN Append(s.system_signals, entry)
                ELSE [s.system_signals EXCEPT ![idx] = Update(@, entry)]
    IN Fall([s EXCEPT !.system_signals = LastN(sigs, max_sigs)], <<>>)

\* exploration.py 195-205: the FSSSignalDiscovered handler; it hands
\* (SignalType, SignalName, is_station) to a classifier that takes
\* (signal_name, uss_type, is_station) and appends the category string
HandleFSSSignalDiscovered(s, e) ==
    IF IsStr(Get(e, "SignalType", NONE))
    THEN [s EXCEPT !.system_signals =
            Append(@, [nondict |-> TRUE,
                       str |-> _classify_system_signal(
                                  e.SignalType, Get(e, "SignalName", NONE),
                                  IF Has(e, "IsStation") /\ e.IsStation THEN "True" ELSE "False",
                                  NONE)])]
    ELSE s

-----------------------------------------------------------------------------
(* The handler chain and process *)

Handled(s, m) == [handled |-> TRUE, s |-> s, msgs |-> m]
Declined(s) == [handled |-> FALSE, s |-> s, msgs |-> <<>>]

\* inventory.handle
inventory_handle(s, name, e) ==
    CASE name = "LoadGame" ->
            Handled([s EXCEPT !.commander = OrS(Get(e, "Commander", NONE), s.commander)], <<>>)
      [] name = "Materials" -> Handled(HandleMaterials(s, e), <<>>)
      [] name = "ShipLocker" -> Handled(HandleShipLocker(s, e), <<>>)
      [] name = "Cargo" -> Handled(HandleCargo(s, e), <<>>)
      [] OTHER -> Declined(s)

\* exploration.handle
exploration_handle(s, name, e, xi) ==
    CASE name = "FSDJump" -> Handled(HandleFSDJump(s, e, xi), <<>>)
      [] name = "Location" -> Handled(HandleLocation(s, e, xi), <<>>)
      [] name = "StartJump" -> Handled(HandleStartJump(s, e), <<>>)
      [] name = "Scan" -> Handled(HandleScan(s, e), <<>>)
      [] name = "SAAScanComplete" -> Handled(HandleSAAScanComplete(s, e), <<>>)
      [] name = "FSSDiscoveryScan" -> Handled(FoldFSSDiscoveryScan(s, e), <<>>)
      [] name = "FSSSignalDiscovered" -> Handled(HandleFSSSignalDiscovered(s, e), <<>>)
      [] name = "FSSBodySignals" -> Handled(s, <<>>)   \* Signals is a list: nothing is stored
      [] name = "SAASignalsFound" -> Handled(HandleSAASignalsFound(s, e), <<>>)
      [] name = "CodexEntry" -> Handled(HandleCodexEntry(s, e), <<>>)
      [] name = "MultiSellExplorationData" ->
            Handled(HandleMultiSell(s, e),
                    IF IsInt(Get(e, "TotalEarnings", NOINT)) THEN <<"Exploration sold">> ELSE <<>>)
      [] OTHER -> Declined(s)

\* exobio.handle
exobio_handle(s, name, e) ==
    CASE name = "ScanOrganic" ->
            Handled(HandleScanOrganic(s, e),
                    IF TruthyT(Get(e, "Genus", NoText)) /\ IsStrT(e.Genus)
                    THEN <<"Exobio scan">> ELSE <<>>)
      [] name = "SellOrganicData" ->
            Handled(HandleSellOrganicData(s, e),
                    IF IsInt(Get(e, "BioDataValue", NOINT)) THEN <<"Exobio sold">> ELSE <<>>)
      [] OTHER -> Declined(s)

\* powerplay.handle
powerplay_handle(s, name, e) ==
    CASE name = "Powerplay" ->
            Handled(HandlePowerplay(s, e),
                    IF TruthyS(OrS(Get(e, "Power", NONE), s.power)) THEN <<"Powerplay">> ELSE <<>>)
      [] OTHER -> Declined(s)

\* misc.handle
misc_handle(s, name, e) ==
    CASE name = "RedeemVoucher" ->
            Handled(HandleRedeemVoucher(s, e),
                    IF IsInt(Get(e, "Amount", NOINT)) THEN <<"Voucher redeemed">> ELSE <<>>)
      [] name = "CommunityGoalJoin" ->
            Handled(HandleCommunityGoalJoin(s, e),
                    IF IsInt(Get(e, "CGID", NOINT)) /\ TruthyS(GoalTitle(s, e))
                    THEN <<"CG joined">> ELSE <<>>)
      [] name = "CommunityGoal" -> Handled(HandleCommunityGoal(s, e), <<>>)
      [] name = "ShipTargeted" -> Handled(HandleShipTargeted(s, e), <<>>)
      [] OTHER -> Declined(s)

\* a, when that handler claimed the event, else b
OrElse(a, b) == IF a.handled THEN a ELSE b

\* event_engine.py 825-841: the first handler that claims the event ends the
\* chain. No handler raises on the records of the model.
Dispatch(s, name, e, xi) ==
    OrElse(inventory_handle(s, name, e),
    OrElse(exploration_handle(s, name, e, xi),
    OrElse(exobio_handle(s, name, e),
    OrElse(powerplay_handle(s, name, e),
           misc_handle(s, name, e)))))

\* event_engine.py 140-823: the branches of process, entered only when the
\* record holds no integer Credits (the chain hangs by "elif" off that test)
Inline(s, name, e, pv, xv, xi) ==
    CASE name = "Location" -> InlineLocation(s, e, xi)
      [] name = "StartJump" -> InlineStartJump(s, e, xi)
      [] name = "ShipTargeted" -> InlineShipTargeted(s, e)
      [] name = "Powerplay" -> InlinePowerplay(s, e)
      [] name = "Cargo" -> InlineCargo(s, e)
      [] name = "Scan" -> InlineScan(s, e, pv)
      [] name = "SAAScanComplete" -> InlineSAAScanComplete(s, e, pv)
      [] name = "FSSDiscoveryScan" -> Fall(FoldFSSDiscoveryScan(s, e), <<>>)
      [] name = "FSSSignalDiscovered" -> InlineFSSSignalDiscovered(s, e)
      [] name = "FSSBodySignals" -> InlineFSSBodySignals(s, e)
      [] name = "SAASignalsFound" -> InlineSAASignalsFound(s, e)
      [] name = "ScanOrganic" -> InlineScanOrganic(s, e, xv)
      [] name = "CodexEntry" -> InlineCodexEntry(s, e, xv)
      [] name = "SellOrganicData" -> InlineSellOrganicData(s, e)
      [] OTHER -> Fall(s, <<>>)

\* event_engine.py 136-138: the cross-cutting Credits update
CreditsUpdate(s, e) ==
    IF IsInt(Get(e, "Credits", NOINT)) THEN [s EXCEPT !.credits = e.Credits] ELSE s

\* event_engine.py 843: return self.state, msgs after the chain
AfterChain(h, m) == Return(h.s, m \o h.msgs)

\* the rest of process after its branch left the outcome inl
AfterInline(inl, name, e, xi) ==
    IF inl.ret # "fall" THEN inl ELSE AfterChain(Dispatch(inl.s, name, e, xi), inl.msgs)

\* EventEngine.process
process(s, e, pv, xv, xi) ==
    AfterInline(IF IsInt(Get(e, "Credits", NOINT))
                THEN Fall(CreditsUpdate([s EXCEPT !.last_event = Get(e, "event", NONE)], e), <<>>)
                ELSE Inline([s EXCEPT !.last_event = Get(e, "event", NONE)],
                            Get(e, "event", NONE), e, pv, xv, xi),
                Get(e, "event", NONE), e, xi)

-----------------------------------------------------------------------------
(* The engine as a state machine: one call of process per step *)

\* Bounds of the model
MaxReplay == 2      \* nfold counts the calls of process up to this
MaxEarn == 2        \* the ledgers together stay within this many credits

Abs(n) == IF n < 0 THEN 0 - n ELSE n

Earned(s) ==
    Abs(s.session_exo_earnings) + Abs(s.session_exobio_earnings)
    + Abs(s.session_exploration_earnings) + Abs(s.session_codex_collected)
    + Abs(s.session_voucher_earnings)

WithinBounds(s) == Earned(s) <= MaxEarn

\* journal_watcher.py 16-22: JournalWatcher.__init__. pc is the position of
\* the worker thread in run, open and pos are the handle _fp and its read
\* position, handles the files on which the process holds an open handle, events is the list bootstrap collects and then emits, window
\* the list as the read loop left it, emitted its count of emitted events, line the line last read, notice the last text emitted
\* through status or error; stopped records that the main window has called
\* stop().
NewWatcher ==
    [running |-> FALSE, pc |-> "idle", current_file |-> NONE, open |-> FALSE, pos |-> 0,
     handles |-> {},
     no_journal_notice |-> FALSE, events |-> <<>>, window |-> <<>>, emitted |-> 0, line |-> <<>>,
     notice |-> "", stopped |-> FALSE]

\* no reference document in the settings directory, no table object made yet
\* and no query answered; mtime is the clock of the document, kept while the
\* document is absent
NoDoc == [exists |-> FALSE, mtime |-> 0, text |-> ""]
\* the fields a table object is given by __init__ before its first _load
\* (external_intel.py 16-20, item_catalog.py 38-44, farming_locations.py
\* 31-43): _mtime is None and the indexes are empty. kind is the class of the
\* object, NONE while none is made; tried is the modification time of the
\* document at the last attempt to parse it
NewTable == [kind |-> NONE, mtime |-> NOINT, data |-> EmptyDict, tried |-> NOINT]
\* tick alternates with every query; query is what was asked, value the list
\* returned, parsed whether the query read and parsed the document
NoAnswer == [tick |-> FALSE, query |-> <<>>, value |-> <<>>, parsed |-> FALSE]

\* EventEngine.__init__ with the given reference tables; the watcher is not
\* started and the journal directory is empty
InitEngine(xv, pv) ==
    /\ journal = EmptyDict
    /\ watcher = NewWatcher
    /\ forwarded = <<>>
    /\ io_fault = "none"
    /\ state = NewGameState
    /\ exo_values = xv
    /\ planet_values = pv
    /\ external_intel = PoiStore
    /\ ev = [event |-> NONE]
    /\ raised = FALSE
    /\ msgs = <<>>
    /\ nfold = 0
    /\ doc = NoDoc
    /\ table = NewTable
    /\ answer = NoAnswer

\* MainWindow._on_event: one decoded record e is handed to process
Fold(e) ==
    \E r \in {process(state, e, planet_values, exo_values, external_intel)} :
       /\ WithinBounds(r.s)
       /\ state' = r.s
       /\ raised' = (r.ret = "raise")
       /\ msgs' = r.msgs
       /\ ev' = e
       /\ nfold' = IF nfold < MaxReplay THEN nfold + 1 ELSE nfold
       /\ UNCHANGED <<exo_values, planet_values, external_intel>>
       /\ UNCHANGED watcherVars /\ UNCHANGED refVars

\* the record e with an integer Credits field added
WithCredits(e) == Update(e, [Credits |-> 7])

-----------------------------------------------------------------------------
(* A journal of travel: arrivals, jumps, and one record of each kind that   *)
(* fills a per-system collection                                            *)

BodyA == <<"A", SP, "1">>

LocationFull(n) ==
    [event |-> "Location", StarSystem |-> n, SystemAddress |-> AddressOf(n),
     SystemAllegiance |-> AllegianceOf(n), SystemGovernment |-> GovernmentOf(n),
     SystemEconomy |-> "$economy_Extraction;", SystemSecurity |-> "$SYSTEM_SECURITY_high;",
     Population |-> AddressOf(n) * 1000, SystemFaction |-> [Name |-> AllegianceOf(n)],
     Factions |-> <<[Name |-> AllegianceOf(n)]>>, ControllingPower |-> PowerOf(n),
     PowerplayState |-> "Fortified", Powers |-> <<PowerOf(n)>>]
LocationBare(n) == [event |-> "Location", StarSystem |-> n]

FSDJumpFull(n) ==
    [event |-> "FSDJump", StarSystem |-> n, SystemAddress |-> AddressOf(n),
     SystemAllegiance |-> AllegianceOf(n), SystemGovernment |-> GovernmentOf(n),
     SystemEconomy |-> "$economy_Extraction;", SystemSecurity |-> "$SYSTEM_SECURITY_high;",
     Population |-> AddressOf(n) * 1000, SystemFaction |-> [Name |-> AllegianceOf(n)],
     Factions |-> <<[Name |-> AllegianceOf(n)]>>, ControllingPower |-> PowerOf(n),
     PowerplayState |-> "Fortified", Powers |-> <<PowerOf(n)>>]
FSDJumpBare(n) == [event |-> "FSDJump", StarSystem |-> n]

LocationEvents == {LocationFull("Sol"), LocationBare("Achenar")}
FSDJumpEvents == {FSDJumpFull("Achenar")}
StartJumpEvents ==
    {[event |-> "StartJump", JumpType |-> "Hyperspace", StarSystem |-> "Achenar", StarClass |-> "G"]}

BodySignalsA ==
    [event |-> "FSSBodySignals", BodyName |-> BodyA, BodyID |-> 1,
     Signals |-> << [Type |-> "$SAA_SignalType_Biological;", Count |-> 2],
                    [Type |-> "$SAA_SignalType_Geological;", Count |-> 1] >>]
SignalsFoundA ==
    [event |-> "SAASignalsFound", BodyName |-> BodyA, BodyID |-> 1,
     Signals |-> << [Type |-> "$SAA_SignalType_Biological;", Count |-> 2] >>,
     Genuses |-> << [Genus_Localised |-> G_STRATUM] >>]
OrganicA == [event |-> "ScanOrganic", ScanType |-> "Log", Body |-> 1,
             Genus_Localised |-> G_STRATUM, Species_Localised |-> S_STRATUM]
SignalX == [event |-> "FSSSignalDiscovered", SignalName |-> "Lagrange Cloud", timestamp |-> "t1"]
Honk == [event |-> "FSSDiscoveryScan", BodyCount |-> 5, NonBodyCount |-> 3]

NavLocation == /\ \E e \in LocationEvents : Fold(e)
NavFSDJump == /\ \E e \in FSDJumpEvents : Fold(e)
NavStartJump == /\ \E e \in StartJumpEvents : Fold(e)
\* an arrival record that also carries the credit balance
NavLocationCredits == /\ Fold(WithCredits(LocationBare("Achenar")))
\* a jump record without a system address
NavFSDJumpBare == /\ Fold(FSDJumpBare("Achenar"))
NavFSSBodySignals == /\ Fold(BodySignalsA)
NavSAASignalsFound == /\ Fold(SignalsFoundA)
NavScanOrganic == /\ Fold(OrganicA)
NavFSSSignalDiscovered == /\ Fold(SignalX)
NavFSSDiscoveryScan == /\ Fold(Honk)

InitNav == InitEngine(NoExoTable, NoPlanetTable)
NextNav ==
    \/ NavLocation \/ NavFSDJump \/ NavStartJump \/ NavLocationCredits \/ NavFSDJumpBare
    \/ NavFSSBodySignals \/ NavSAASignalsFound \/ NavScanOrganic
    \/ NavFSSSignalDiscovered \/ NavFSSDiscoveryScan
SpecNav == InitNav /\ [][NextNav]_vars

\* the per-system collections
PerSystemEmpty(s) ==
    /\ s.bodies = EmptyDict /\ s.exo = EmptyDict /\ s.body_id_to_name = EmptyDict
    /\ s.bio_signals = EmptyDict /\ s.geo_signals = EmptyDict /\ s.bio_genuses = EmptyDict
    /\ s.system_signals = <<>>

\* e names a system, and not the one s is in
NamesOtherSystem(s, e) ==
    TruthyS(Get(e, "StarSystem", NONE)) /\ Get(e, "StarSystem", NONE) # s.system

\* C1: a Location record that names another system than the current one
\* leaves every per-system collection empty (bodies, exo records, the
\* body-id map, the bio/geo counts, the genus lists, the discovered-signal
\* list, the body and non-body counts), whatever else the record carries.
LocationClearsPerSystem ==
    [][ (ev'.event = "Location" /\ NamesOtherSystem(state, ev'))
        => (PerSystemEmpty(state') /\ state'.system_body_count = NOINT
            /\ state'.non_body_count = NOINT) ]_vars

\* the system metadata
SystemMeta(s) ==
    << s.system_allegiance, s.system_government, s.system_economy, s.system_security,
       s.population, s.controlling_faction, s.factions, s.system_controlling_power,
       s.system_powerplay_state, s.system_powers, s.system_powerplay_conflict_progress,
       s.system_address >>

\* the state s with nothing known about its system
MetaForgotten(s) ==
    [s EXCEPT !.system_allegiance = NONE, !.system_government = NONE, !.system_economy = NONE,
              !.system_security = NONE, !.population = NOINT, !.controlling_faction = NONE,
              !.factions = <<>>, !.system_controlling_power = NONE,
              !.system_powerplay_state = NONE, !.system_powers = <<>>,
              !.system_powerplay_conflict_progress = EmptyDict, !.system_address = NOINT]

\* C2: an FSDJump record that names another system than the current one
\* leaves bodies, exo records, the body-id map, the bio/geo counts, the genus
\* lists and the discovered-signal list empty, and the system metadata holds
\* nothing of the previous system: it is what the same record gives when
\* nothing was known about the previous system.
FSDJumpForgetsPreviousSystem ==
    [][ (ev'.event = "FSDJump" /\ NamesOtherSystem(state, ev'))
        => /\ PerSystemEmpty(state')
           /\ SystemMeta(state')
              = SystemMeta(process(MetaForgotten(state), ev', planet_values, exo_values,
                                   external_intel).s) ]_vars

-----------------------------------------------------------------------------
(* A journal of travel and trade: arrivals and jumps among the records that *)
(* fill the commander-wide inventories, the ledgers and the community goals *)

MaterialsA ==
    [event |-> "Materials", Raw |-> <<[Name |-> "iron", Count |-> 3]>>,
     Manufactured |-> <<[Name |-> "nickel", Count |-> 1, Name_Localised |-> "Nickel Alloy"]>>,
     Encoded |-> <<[Name |-> "iron", Count |-> 2]>>]
ShipLockerA == [event |-> "ShipLocker", Items |-> <<[Name |-> "Health Pack", Count |-> 1]>>]
CargoA == [event |-> "Cargo", Count |-> 4, Inventory |-> <<[Name |-> "drones", Count |-> 4]>>]
SellExplorationA == [event |-> "MultiSellExplorationData", TotalEarnings |-> 1]
VoucherA == [event |-> "RedeemVoucher", Amount |-> 1]
SellOrganicA == [event |-> "SellOrganicData", BioData |-> <<[Value |-> 1, Bonus |-> 0]>>]
CodexVoucherA == [event |-> "CodexEntry", VoucherAmount |-> 1]
GoalJoinA == [event |-> "CommunityGoalJoin", CGID |-> 1, Name |-> "Relief", System |-> "Sol"]

FoldMaterials == /\ Fold(MaterialsA)
FoldShipLocker == /\ Fold(ShipLockerA)
FoldCargo == /\ Fold(CargoA)
FoldMultiSell == /\ Fold(SellExplorationA)
FoldRedeemVoucher == /\ Fold(VoucherA)
FoldSellOrganicData == /\ Fold(SellOrganicA)
FoldCodexVoucher == /\ Fold(CodexVoucherA)
FoldCommunityGoalJoin == /\ Fold(GoalJoinA)

NextFrame ==
    \/ NavLocation \/ NavFSDJump \/ NavStartJump
    \/ FoldMaterials \/ FoldShipLocker \/ FoldCargo
    \/ FoldMultiSell \/ FoldRedeemVoucher \/ FoldSellOrganicData \/ FoldCodexVoucher
    \/ FoldCommunityGoalJoin
SpecFrame == InitNav /\ [][NextFrame]_vars

\* the commander-wide inventories, the session ledgers and the community goals
CommanderWide(s) ==
    << s.materials_raw, s.materials_raw_loc, s.materials_manufactured,
       s.materials_manufactured_loc, s.materials_encoded, s.materials_encoded_loc,
       s.shiplocker_items, s.shiplocker_items_loc, s.cargo_inventory,
       s.session_exo_earnings, s.session_exobio_earnings, s.session_exploration_earnings,
       s.session_codex_collected, s.session_voucher_earnings, s.community_goals >>

\* C3: folding a Location, FSDJump or StartJump record, whether or not it
\* changes the current system, leaves the material counts and names, the
\* ship-locker items, the cargo snapshot, every session ledger and the
\* community-goal records as they were.
TravelKeepsCommanderWide ==
    [][ ev'.event \in {"Location", "FSDJump", "StartJump"}
        => CommanderWide(state') = CommanderWide(state) ]_vars

\* a jump to another system has just been folded with materials, ship-locker
\* items, cargo, a community goal and earnings on record
TravelWithFullHold ==
    /\ ev.event = "FSDJump" /\ state.system = "Achenar" /\ "Achenar" \in state.visited_systems
    /\ state.materials_raw # EmptyDict /\ state.shiplocker_items # EmptyDict
    /\ state.cargo_inventory # <<>> /\ state.community_goals # EmptyDict
    /\ state.session_exploration_earnings > 0 /\ state.session_voucher_earnings > 0

-----------------------------------------------------------------------------
(* The records that create or update a keyed record *)

\* one body, its name written with different blanks
BodyNames == {BodyA, <<SP, "A", SP, "1">>, <<"A", SP, SP, "1">>}

ScanOf(b) ==
    [event |-> "Scan", BodyName |-> b, BodyID |-> 1, PlanetClass |-> "Water world",
     TerraformState |-> "Terraformable", WasDiscovered |-> FALSE, WasMapped |-> FALSE]
ScanEvents == {ScanOf(b) : b \in BodyNames}

OrganicOf(g, sp, st) ==
    [event |-> "ScanOrganic", ScanType |-> st, Body |-> 1, Genus_Localised |-> g,
     Species_Localised |-> sp]
\* the organisms of the model as (genus, species); the last one is a species
\* whose name is the word CODEX
Organisms == {<<G_STRATUM, S_STRATUM>>, <<G_BRAIN, S_BRAIN>>, <<G_STRATUM, CODEX>>}
ScanTypes == {"Log", "Sample", "Analyse"}
ScanOrganicEvents ==
    {OrganicOf(o[1], o[2], st) : o \in Organisms, st \in ScanTypes}
    \cup {WithCredits(OrganicOf(G_STRATUM, S_STRATUM, "Sample"))}

CodexOf(nm) == [event |-> "CodexEntry", BodyID |-> 1, Name_Localised |-> nm, EntryID |-> 100]
CodexEntryEvents == {CodexOf(S_CODEX_STRATUM), CodexOf(S_BRAIN)}

ShipTargetedEvents ==
    { [event |-> "ShipTargeted", TargetLocked |-> FALSE],
      [event |-> "ShipTargeted", TargetLocked |-> TRUE, ScanStage |-> 0, Ship |-> "anaconda"],
      [event |-> "ShipTargeted", TargetLocked |-> TRUE, ScanStage |-> 3, Ship |-> "anaconda",
       PilotName |-> "Jameson", PilotRank |-> "Elite", Faction |-> "Pirates",
       LegalStatus |-> "Wanted", Bounty |-> 600000, Power |-> "A. Lavigny-Duval",
       timestamp |-> "t1"] }

CommunityGoalEvents ==
    { [event |-> "CommunityGoal", CGID |-> 1, Title |-> "Relief", IsComplete |-> FALSE],
      [event |-> "CommunityGoal", CurrentGoals |-> <<[CGID |-> 1, Title |-> "Relief"]>>] }

-----------------------------------------------------------------------------
(* One record applied to a fresh session state, then applied again *)

InitTwice ==
    \E xv \in {ExoTable, NoExoTable} : \E pv \in {PlanetTable, NoPlanetTable} : InitEngine(xv, pv)

OnceScan == /\ nfold = 0 /\ \E e \in ScanEvents : Fold(e)
OnceScanOrganic == /\ nfold = 0 /\ \E e \in ScanOrganicEvents : Fold(e)
OnceCodexEntry == /\ nfold = 0 /\ \E e \in CodexEntryEvents \cup {CodexVoucherA} : Fold(e)
OnceShipTargeted == /\ nfold = 0 /\ \E e \in ShipTargetedEvents : Fold(e)
OnceCommunityGoalJoin == /\ nfold = 0 /\ Fold(GoalJoinA)
OnceCommunityGoal == /\ nfold = 0 /\ \E e \in CommunityGoalEvents : Fold(e)
\* the record of the last call is handed to process again
Again == /\ nfold >= 1 /\ nfold < MaxReplay /\ Fold(ev)

NextTwice ==
    \/ OnceScan \/ OnceScanOrganic \/ OnceCodexEntry \/ OnceShipTargeted
    \/ OnceCommunityGoalJoin \/ OnceCommunityGoal \/ Again
SpecTwice == InitTwice /\ [][NextTwice]_vars

\* C4 as stated: for Scan, ScanOrganic, CodexEntry, ShipTargeted,
\* CommunityGoalJoin and CommunityGoal, applying the same record a second time
\* to a fresh session state leaves the state exactly as the first fold left it.
SecondFoldChangesNothing ==
    [][ (nfold >= 1 /\ ev' = ev) => state' = state ]_vars

\* the records whose every fold counts: a Sample scan, a codex voucher
CountsEachTime(e) ==
    \/ e.event = "ScanOrganic" /\ Get(e, "ScanType", NONE) = "Sample"
    \/ e.event = "CodexEntry" /\ IsInt(Get(e, "VoucherAmount", NOINT)) /\ e.VoucherAmount > 0

\* C4 as amended: the same, except for a ScanOrganic record of scan type
\* Sample and a CodexEntry record with a positive VoucherAmount.
SecondFoldChangesNothingUnlessCounted ==
    [][ (nfold >= 1 /\ ev' = ev /\ ~CountsEachTime(ev)) => state' = state ]_vars

\* a Log scan has been folded twice and its record is on file
LogScanFoldedTwice ==
    /\ nfold = 2 /\ ev.event = "ScanOrganic" /\ ev.ScanType = "Log"
    /\ \E k \in DOMAIN state.exo : state.exo[k].Samples = 1

-----------------------------------------------------------------------------
(* The records about one body of one system, in any order *)

InitBodies == InitEngine(NoExoTable, PlanetTable)

BodyScan == /\ \E b \in BodyNames : Fold(ScanOf(b))
BodyFSSBodySignals == /\ \E b \in BodyNames : Fold(Update(BodySignalsA, [BodyName |-> b]))
BodySAASignalsFound == /\ \E b \in BodyNames : Fold(Update(SignalsFoundA, [BodyName |-> b]))
BodySAAScanComplete ==
    /\ \E b \in BodyNames : Fold([event |-> "SAAScanComplete", BodyName |-> b, BodyID |-> 1])

NextBodies == BodyScan \/ BodyFSSBodySignals \/ BodySAASignalsFound \/ BodySAAScanComplete
SpecBodies == InitBodies /\ [][NextBodies]_vars

\* C5: whatever Scan, FSSBodySignals, SAASignalsFound and SAAScanComplete
\* records about one body have been folded, in any order and with the body
\* name written with any surrounding or internal blanks, the bodies mapping
\* holds one record for that body and never a second one.
OneRecordPerBody == Cardinality(DOMAIN state.bodies) <= 1

-----------------------------------------------------------------------------
(* Organic scans and codex entries on one body *)

InitExo == \E xv \in {ExoTable, NoExoTable} : InitEngine(xv, NoPlanetTable)

ExoLog == /\ \E o \in Organisms : Fold(OrganicOf(o[1], o[2], "Log"))
ExoSample == /\ \E o \in Organisms : Fold(OrganicOf(o[1], o[2], "Sample"))
ExoAnalyse == /\ \E o \in Organisms : Fold(OrganicOf(o[1], o[2], "Analyse"))
ExoSampleCredits == /\ Fold(WithCredits(OrganicOf(G_STRATUM, S_STRATUM, "Sample")))
ExoCodexEntry == /\ \E e \in CodexEntryEvents : Fold(e)

NextExo == ExoLog \/ ExoSample \/ ExoAnalyse \/ ExoSampleCredits \/ ExoCodexEntry
SpecExo == InitExo /\ [][NextExo]_vars

\* the stored sample progress of a key; 0 when the key has no record
Progress(exo, k) == IF k \in DOMAIN exo THEN Get(exo[k], "Samples", 0) ELSE 0
OrganismKeys == {ExoKey(1, o[1], o[2]) : o \in Organisms}
KeyOf(e) == ExoKey(e.Body, e.Genus_Localised, e.Species_Localised)

\* C6: for every (body id, genus, species) key, no ScanOrganic or CodexEntry
\* record, about this key or another, takes the key's stored sample progress
\* from one state to a lower one in the next.
ProgressNeverDecreases ==
    [][ \A k \in OrganismKeys : Progress(state'.exo, k) >= Progress(state.exo, k) ]_vars

\* C7: folding a ScanOrganic record with an integer body id sets the progress
\* of its key to min(3, old + 1) for Sample, max(old, 1) for Log and 3 with the
\* completion flag for Analyse, old being the progress before the fold (0
\* when the key has no record).
ScanOrganicSetsProgress ==
    [][ (ev'.event = "ScanOrganic" /\ IsInt(Get(ev', "Body", NOINT))) =>
          LET old == Progress(state.exo, KeyOf(ev'))
              new == Progress(state'.exo, KeyOf(ev'))
          IN /\ ev'.ScanType = "Sample" => new = Min(3, old + 1)
             /\ ev'.ScanType = "Log" => new = Max(old, 1)
             /\ ev'.ScanType = "Analyse" =>
                    /\ new = 3
                    /\ KeyOf(ev') \in DOMAIN state'.exo
                    /\ Get(state'.exo[KeyOf(ev')], "Complete", FALSE) ]_vars

\* C8: with or without an organism value table, the exo mapping never holds
\* a CODEX placeholder beside a ScanOrganic record of the same body id and
\* genus.
NoPlaceholderBesideScan ==
    \A k1 \in DOMAIN state.exo : \A k2 \in DOMAIN state.exo :
        ~ /\ Get(state.exo[k1], "LastScanType", "") # "CODEX"
          /\ Get(state.exo[k2], "LastScanType", "") = "CODEX"
          /\ state.exo[k1].BodyID = state.exo[k2].BodyID
          /\ state.exo[k1].Genus = state.exo[k2].Genus

-----------------------------------------------------------------------------
(* Records that are JSON objects with a field of an unexpected type *)

\* a list element that is a string, not an object
BadCargoA == [event |-> "Cargo", Count |-> 1, Inventory |-> <<NonDict>>]
BadBodySignalsA == Update(BodySignalsA, [Signals |-> <<NonDict>>])
BadSignalsFoundA == Update(SignalsFoundA, [Signals |-> <<NonDict>>])
BadSellOrganicA == [event |-> "SellOrganicData", BioData |-> <<NonDict>>]
\* a number where a string is expected
BadScanA == Update(ScanOf(BodyA), [TerraformState |-> BAD])
BadOrganicA == Update(OrganicA, [ScanType |-> BAD])
\* a string where an object is expected
BadLocationA == [event |-> "Location", StarSystem |-> "Sol", SystemFaction |-> NonDict]

InitMalformed == InitEngine(NoExoTable, PlanetTable)

OddCargo == /\ \E e \in {CargoA, BadCargoA} : Fold(e)
OddFSSBodySignals == /\ \E e \in {BodySignalsA, BadBodySignalsA} : Fold(e)
OddSAASignalsFound == /\ \E e \in {SignalsFoundA, BadSignalsFoundA} : Fold(e)
OddSellOrganicData == /\ \E e \in {SellOrganicA, BadSellOrganicA} : Fold(e)
OddScan == /\ \E e \in {ScanOf(BodyA), BadScanA} : Fold(e)
OddScanOrganic == /\ \E e \in {OrganicA, BadOrganicA} : Fold(e)
OddLocation == /\ \E e \in {LocationBare("Sol"), BadLocationA} : Fold(e)

NextMalformed ==
    \/ OddCargo \/ OddFSSBodySignals \/ OddSAASignalsFound \/ OddSellOrganicData
    \/ OddScan \/ OddScanOrganic \/ OddLocation
SpecMalformed == InitMalformed /\ [][NextMalformed]_vars

\* C9: process returns normally for every record that is a JSON object,
\* whatever the types of its fields; no call of process raises to its caller.
ProcessNeverRaises == raised = FALSE

-----------------------------------------------------------------------------
(* The journal directory and the watcher thread                             *)
(*                                                                          *)
(* journal is the list of the Journal*.log files ordered by modification    *)
(* time, oldest first, each with its name and its content. The content is  *)
(* a sequence of pieces: a line the game writes is the head of a JSON        *)
(* object, its tail and a newline. A piece counts as one byte.               *)

MaxLines == 3           \* the game client writes at most this many lines

NL == [t |-> "nl", n |-> 0, k |-> "", live |-> FALSE]
\* live records that the watcher had the file open when the line was begun
HeadOf(n, k, live) == [t |-> "head", n |-> n, k |-> k, live |-> live]
TailOf(n) == [t |-> "tail", n |-> n, k |-> "", live |-> FALSE]
\* text that json.loads rejects
JunkOf(n, live) == [t |-> "junk", n |-> n, k |-> "", live |-> live]
LineKinds == {"Location", "Scan"}

HasFile(j, f) == \E i \in 1..Len(j) : j[i].name = f
DataOf(j, f) == IF HasFile(j, f) THEN j[CHOOSE i \in 1..Len(j) : j[i].name = f].data ELSE <<>>
\* the file f grows by the pieces and becomes the most recently modified
Written(j, f, pieces) ==
    Append(SelectSeq(j, LAMBDA x : x.name # f), [name |-> f, data |-> DataOf(j, f) \o pieces])
Serials(j) ==
    UNION { {j[i].data[x].n : x \in {y \in 1..Len(j[i].data) : j[i].data[y].t \in {"head", "junk"}}} :
            i \in 1..Len(j) }
\* the last line of f lacks its tail and newline
HalfWritten(j, f) ==
    DataOf(j, f) # <<>> /\ DataOf(j, f)[Len(DataOf(j, f))].t = "head"
Attached(f) == watcher.open /\ watcher.current_file = f

\* a cleanup that drops _fp without closing it
_cleanup_unclosed(w) == [w EXCEPT !.open = FALSE, !.pos = 0]

\* journal_watcher.py 69-75
_cleanup(w) == [w EXCEPT !.open = FALSE, !.pos = 0, !.handles = {}]

\* journal_watcher.py 131-135
_find_latest_journal(j) == IF Len(j) = 0 THEN NONE ELSE j[Len(j)].name

\* TextIOWrapper.readline: the text from pos through the next newline, or
\* through the end of the file when no newline follows; empty at the end
ReadLine(data, pos) ==
    IF pos >= Len(data) THEN <<>>
    ELSE IF \E i \in (pos + 1)..Len(data) : data[i].t = "nl"
         THEN SubSeq(data, pos + 1,
                     CHOOSE i \in (pos + 1)..Len(data) :
                         data[i].t = "nl" /\ \A x \in (pos + 1)..(i - 1) : data[x].t # "nl")
         ELSE SubSeq(data, pos + 1, Len(data))

\* line.strip() is empty
Blank(line) == \A i \in 1..Len(line) : line[i].t = "nl"
\* json.loads(line) returns an object: the line is one whole object, with
\* or without its newline
Decodes(line) ==
    /\ Len(line) \in {2, 3}
    /\ line[1].t = "head" /\ line[2].t = "tail" /\ line[2].n = line[1].n
    /\ Len(line) = 3 => line[3].t = "nl"
Decoded(line) == [event |-> line[1].k, serial |-> line[1].n]


\* journal_watcher.py 81: the arguments _switch_to passes to the bootstrap,
\* 256 * 1024 bytes and 800 events in the program, scaled down so that a file
\* of a few lines is longer than the window and holds more events than the cap
max_bytes == 13
max_events == 3

\* events[anchor:] with the anchor at the first Location or FSDJump
FromFirstAnchor(events) ==
    LET anchors == {i \in 1..Len(events) : events[i].event \in {"Location", "FSDJump"}}
    IN IF anchors = {} THEN events
       ELSE SubSeq(events, CHOOSE i \in anchors : \A x \in anchors : i <= x, Len(events))

\* journal_watcher.py 114-123: events[anchor:], anchor being the last
\* Location or FSDJump of the list, or 0 when it holds none
FromAnchor(events) ==
    LET anchors == {i \in 1..Len(events) : events[i].event \in {"Location", "FSDJump"}}
    IN IF anchors = {} THEN events
       ELSE SubSeq(events, CHOOSE i \in anchors : \A x \in anchors : x <= i, Len(events))

\* journal_watcher.py 111-112: after the read loop, bootstrap returns at once
\* when it collected nothing, else it goes on to emit from the anchor
AfterBootRead(w, events) ==
    IF events = <<>> THEN [w EXCEPT !.events = <<>>, !.window = <<>>, !.pc = "seek_end"]
    ELSE [w EXCEPT !.events = FromAnchor(events), !.window = events, !.pc = "boot_emit"]

(* The game client *)

\* a whole line is written at once
GameWritesLine(f) ==
    /\ Cardinality(Serials(journal)) < MaxLines /\ ~HalfWritten(journal, f)
    /\ \E k \in LineKinds :
          journal' = Written(journal, f,
                             <<HeadOf(Cardinality(Serials(journal)) + 1, k, Attached(f)),
                               TailOf(Cardinality(Serials(journal)) + 1), NL>>)
    /\ UNCHANGED <<watcher, forwarded, io_fault>> /\ UNCHANGED engineVars /\ UNCHANGED refVars

\* a line that is not JSON is written
GameWritesJunk(f) ==
    /\ Cardinality(Serials(journal)) < MaxLines /\ ~HalfWritten(journal, f)
    /\ journal' = Written(journal, f,
                          <<JunkOf(Cardinality(Serials(journal)) + 1, Attached(f)), NL>>)
    /\ UNCHANGED <<watcher, forwarded, io_fault>> /\ UNCHANGED engineVars /\ UNCHANGED refVars

\* only the first part of a line has reached the file
GameWritesHead(f) ==
    /\ Cardinality(Serials(journal)) < MaxLines /\ ~HalfWritten(journal, f)
    /\ \E k \in LineKinds :
          journal' = Written(journal, f,
                             <<HeadOf(Cardinality(Serials(journal)) + 1, k, Attached(f))>>)
    /\ UNCHANGED <<watcher, forwarded, io_fault>> /\ UNCHANGED engineVars /\ UNCHANGED refVars

\* the rest of the line and its newline follow
GameWritesRest(f) ==
    /\ HalfWritten(journal, f)
    /\ journal' = Written(journal, f,
                          <<TailOf(DataOf(journal, f)[Len(DataOf(journal, f))].n), NL>>)
    /\ UNCHANGED <<watcher, forwarded, io_fault>> /\ UNCHANGED engineVars /\ UNCHANGED refVars

(* The worker thread: JournalWatcher.run *)

\* journal_watcher.py 31-32
RunStart ==
    /\ watcher.pc = "idle"
    /\ watcher' = [watcher EXCEPT !.running = TRUE, !.notice = "Watching", !.pc = "find"]
    /\ UNCHANGED <<journal, forwarded, io_fault>> /\ UNCHANGED engineVars /\ UNCHANGED refVars

\* journal_watcher.py 34-46, 62-67, and _switch_to up to the start of the
\* bootstrap read loop (69-80, 86-96)
RunLocate ==
    /\ watcher.pc = "find"
    /\ \E latest \in {_find_latest_journal(journal)} :
        watcher' =
          IF ~watcher.running
          THEN [_cleanup(watcher) EXCEPT !.pc = "done"]
          ELSE IF latest = NONE
          THEN [watcher EXCEPT !.no_journal_notice = TRUE,
                               !.notice = IF watcher.no_journal_notice THEN @
                                          ELSE "No Journal*.log found yet..."]
          ELSE IF watcher.current_file # latest /\ io_fault = "open"
          THEN \* open raises after _cleanup and the assignment of _current_file;
               \* the handler of run reports it and sleeps (62-65)
               [_cleanup(watcher) EXCEPT !.no_journal_notice = FALSE,
                                         !.current_file = latest,
                                         !.notice = "Journal watcher error (see log)."]
          ELSE IF watcher.current_file # latest
          THEN LET size == Len(DataOf(journal, latest))
                   start == Max(0, size - max_bytes)
               IN [_cleanup(watcher) EXCEPT
                                  !.no_journal_notice = FALSE,
                                  !.current_file = latest, !.open = TRUE,
                                  !.handles = @ \cup {latest},
                                  !.pos = IF start > 0
                                          THEN start + Len(ReadLine(DataOf(journal, latest), start))
                                          ELSE 0,
                                  !.events = <<>>, !.window = <<>>, !.emitted = 0,
                                  !.pc = "boot_read"]
          ELSE [watcher EXCEPT !.no_journal_notice = FALSE, !.pc = "read"]
    /\ UNCHANGED <<journal, forwarded, io_fault>> /\ UNCHANGED engineVars /\ UNCHANGED refVars

\* journal_watcher.py 97-112: one turn of `for line in self._fp`
BootstrapRead ==
    /\ watcher.pc = "boot_read"
    /\ \E line \in {ReadLine(DataOf(journal, watcher.current_file), watcher.pos)} :
        watcher' =
          IF io_fault = "read"
          THEN \* the read raises inside the bootstrap's own try (128-129)
               [watcher EXCEPT !.events = <<>>, !.pc = "seek_end"]
          ELSE IF line = <<>> THEN AfterBootRead(watcher, watcher.events)
          ELSE IF Blank(line) \/ ~Decodes(line)
          THEN [watcher EXCEPT !.pos = @ + Len(line)]
          ELSE IF Len(watcher.events) + 1 >= max_events
          THEN AfterBootRead([watcher EXCEPT !.pos = @ + Len(line)],
                             Append(watcher.events, Decoded(line)))
          ELSE [watcher EXCEPT !.pos = @ + Len(line),
                               !.events = Append(@, Decoded(line))]
    /\ UNCHANGED <<journal, forwarded, io_fault>> /\ UNCHANGED engineVars /\ UNCHANGED refVars

\* journal_watcher.py 122-127: one turn of the emit loop, or its end
BootstrapEmit ==
    /\ watcher.pc = "boot_emit"
    /\ IF watcher.events # <<>>
       THEN /\ forwarded' = Append(forwarded, Head(watcher.events))
            /\ watcher' = [watcher EXCEPT !.events = Tail(@), !.emitted = @ + 1]
       ELSE /\ forwarded' = forwarded
            /\ watcher' = [watcher EXCEPT !.notice = "Bootstrapped", !.pc = "seek_end"]
    /\ UNCHANGED <<journal, io_fault>> /\ UNCHANGED engineVars /\ UNCHANGED refVars

\* a switch that seeks to the start of the file, seek(0, 0), after bootstrap
SwitchSeekStart ==
    /\ watcher.pc = "seek_end"
    /\ watcher' = [watcher EXCEPT !.pos = 0, !.notice = "Tailing", !.pc = "read"]
    /\ UNCHANGED <<journal, forwarded, io_fault>> /\ UNCHANGED engineVars /\ UNCHANGED refVars

\* journal_watcher.py 82-83: seek(0, 2)
SwitchSeekEnd ==
    /\ watcher.pc = "seek_end"
    /\ watcher' = [watcher EXCEPT !.pos = Len(DataOf(journal, watcher.current_file)),
                                  !.notice = "Tailing", !.pc = "read"]
    /\ UNCHANGED <<journal, forwarded, io_fault>> /\ UNCHANGED engineVars /\ UNCHANGED refVars

\* journal_watcher.py 48-51, 62-65
RunReadLine ==
    /\ watcher.pc = "read"
    /\ \E line \in {ReadLine(DataOf(journal, watcher.current_file), watcher.pos)} :
        watcher' = IF ~watcher.open THEN [watcher EXCEPT !.pc = "find"]
                   ELSE IF io_fault = "read"
                   THEN \* readline raises; the handler of run reports it (62-65)
                        [watcher EXCEPT !.pc = "find",
                                        !.notice = "Journal watcher error (see log)."]
                   ELSE IF line = <<>> THEN [watcher EXCEPT !.pc = "find"]
                   ELSE [watcher EXCEPT !.pos = @ + Len(line), !.line = line, !.pc = "emit"]
    /\ UNCHANGED <<journal, forwarded, io_fault>> /\ UNCHANGED engineVars /\ UNCHANGED refVars

\* journal_watcher.py 53-60
RunEmit ==
    /\ watcher.pc = "emit"
    /\ IF Decodes(watcher.line)
       THEN /\ forwarded' = Append(forwarded, Decoded(watcher.line))
            /\ watcher' = [watcher EXCEPT !.line = <<>>, !.pc = "find"]
       ELSE /\ forwarded' = forwarded
            /\ watcher' = [watcher EXCEPT !.line = <<>>, !.pc = "find",
                                          !.notice = "Bad journal line (JSON parse failed). Skipped."]
    /\ UNCHANGED <<journal, io_fault>> /\ UNCHANGED engineVars /\ UNCHANGED refVars

\* journal_watcher.py 24-25: stop(), called by MainWindow.stop_watching
\* (main_window.py 544-546) from the main thread at any time
Stop ==
    /\ ~watcher.stopped
    /\ watcher' = [watcher EXCEPT !.running = FALSE, !.stopped = TRUE]
    /\ UNCHANGED <<journal, forwarded, io_fault>> /\ UNCHANGED engineVars /\ UNCHANGED refVars

WatcherStep ==
    \/ RunStart \/ RunLocate \/ BootstrapRead \/ BootstrapEmit \/ SwitchSeekEnd
    \/ RunReadLine \/ RunEmit

-----------------------------------------------------------------------------
(* One journal file, never rotated: the game appends while the watcher runs *)

J1 == "Journal.1.log"
InitWatch == InitEngine(NoExoTable, NoPlanetTable)

GameLine == /\ GameWritesLine(J1)
GameHead == /\ GameWritesHead(J1)
GameRest == /\ GameWritesRest(J1)

NextWatch == GameLine \/ GameHead \/ GameRest \/ WatcherStep
\* the worker thread keeps running; the game may stop writing at any time
SpecWatch == InitWatch /\ [][NextWatch]_vars /\ WF_vars(WatcherStep)

\* the whole of line n is in the file and was begun while the watcher had
\* the file open
LineAppended(n) ==
    \E i \in 1..(Len(DataOf(journal, J1)) - 2) :
        /\ DataOf(journal, J1)[i] \in {HeadOf(n, k, TRUE) : k \in LineKinds}
        /\ DataOf(journal, J1)[i + 1] = TailOf(n)
        /\ DataOf(journal, J1)[i + 2] = NL
LineForwarded(n) == \E i \in 1..Len(forwarded) : forwarded[i].serial = n

\* C10: every well-formed line the game appends to the file the watcher is
\* attached to is eventually forwarded, however the appends interleave with
\* the bootstrap read, the seek to the end and the poll reads, and also when
\* the line reaches the file in two parts.
AppendedLineForwarded ==
    \A n \in 1..MaxLines : LineAppended(n) ~> LineForwarded(n)


\* record rec is the line that begins at piece i of data
LineAt(rec, data, i) ==
    /\ i + 1 <= Len(data)
    /\ data[i].t = "head" /\ data[i].n = rec.serial /\ data[i].k = rec.event
    /\ data[i + 1] = TailOf(rec.serial)
IsLineOf(rec, data) == \E i \in 1..Len(data) : LineAt(rec, data, i)
PlaceOf(rec, data) == CHOOSE i \in 1..Len(data) : LineAt(rec, data, i)

\* C11: the records forwarded during one attachment, by the bootstrap and
\* then by tailing, are lines of the attached file, in the order in which the
\* file holds them, and none of them twice.
ForwardedInFileOrder ==
    /\ \A i \in 1..Len(forwarded) : IsLineOf(forwarded[i], DataOf(journal, J1))
    /\ \A i \in 1..Len(forwarded) : \A j \in 1..Len(forwarded) :
          i < j => PlaceOf(forwarded[i], DataOf(journal, J1))
                   < PlaceOf(forwarded[j], DataOf(journal, J1))

\* the bootstrap has forwarded a record and tailing has forwarded another
BootstrapThenTailForwarded ==
    /\ watcher.emitted >= 1 /\ Len(forwarded) > watcher.emitted
    /\ watcher.pc = "find"


-----------------------------------------------------------------------------
(* Bootstrap of a file the game wrote before the watcher was started *)

MaxBoot == 5            \* the file holds at most this many lines
BootKinds == {"Location", "FSDJump", "Scan"}
\* line n of a file: an event, text that is not JSON, or an empty line
BootLines(n) ==
    {<<HeadOf(n, k, FALSE), TailOf(n), NL>> : k \in BootKinds}
    \cup {<<JunkOf(n, FALSE), NL>>, <<NL>>}
RECURSIVE FilesOf(_)
FilesOf(n) == IF n = 0 THEN {<<>>}
              ELSE {f \o l : f \in FilesOf(n - 1), l \in BootLines(n)}
BootFiles == UNION {FilesOf(n) : n \in 0..MaxBoot}

InitBoot == InitEngine(NoExoTable, NoPlanetTable)

GameWroteFile ==
    /\ journal = <<>> /\ watcher.pc = "idle"
    /\ \E d \in BootFiles : journal' = <<[name |-> J1, data |-> d]>>
    /\ UNCHANGED <<watcher, forwarded, io_fault>> /\ UNCHANGED engineVars /\ UNCHANGED refVars
BootStart == /\ journal # <<>> /\ RunStart

NextBoot ==
    \/ GameWroteFile \/ BootStart \/ RunLocate \/ BootstrapRead \/ BootstrapEmit
    \/ SwitchSeekEnd \/ RunReadLine
SpecBoot == InitBoot /\ [][NextBoot]_vars

IsBoundary(e) == e.event \in {"Location", "FSDJump"}
\* the events the bootstrap of the open file has forwarded
BootstrapForwarded ==
    SubSeq(forwarded, Len(forwarded) - watcher.emitted + 1, Len(forwarded))

\* C12: when the bootstrap is over, the events it forwarded are the end of the
\* decoded window, beginning at the last Location or FSDJump of the window and
\* holding no event before it; they are the whole decoded window when it holds
\* no Location and no FSDJump.
BootstrapFromLastBoundary ==
    watcher.pc = "seek_end" =>
        LET W == watcher.window
            B == BootstrapForwarded
        IN /\ Len(B) <= Len(W) /\ B = SubSeq(W, Len(W) - Len(B) + 1, Len(W))
           /\ (\E i \in 1..Len(W) : IsBoundary(W[i]))
                 => /\ B # <<>> /\ IsBoundary(B[1])
                    /\ \A i \in 2..Len(B) : ~IsBoundary(B[i])
           /\ (\A i \in 1..Len(W) : ~IsBoundary(W[i])) => B = W

\* the window held two boundary events followed by another event, and the
\* bootstrap is over
TwoBoundariesThenAnother ==
    /\ watcher.pc = "seek_end" /\ Len(watcher.window) = 3
    /\ IsBoundary(watcher.window[1]) /\ IsBoundary(watcher.window[2])
    /\ ~IsBoundary(watcher.window[3])
    /\ Len(BootstrapForwarded) = 2


-----------------------------------------------------------------------------
(* Rotation: the game begins a second journal file while the watcher runs *)

J2 == "Journal.2.log"
InitRotate == InitEngine(NoExoTable, NoPlanetTable)

\* the game writes the first file until it begins the second
OldLine == /\ ~HasFile(journal, J2) /\ GameWritesLine(J1)
NewLine == /\ GameWritesLine(J2)

NextRotate == OldLine \/ NewLine \/ WatcherStep
SpecRotate == InitRotate /\ [][NextRotate]_vars

\* the newest file is not the one the watcher has open
Rotated ==
    /\ _find_latest_journal(journal) # NONE
    /\ _find_latest_journal(journal) # watcher.current_file

\* C13: the process holds at most one open handle at any time; a pass of
\* the loop that finds the newest file different from the open one closes the
\* old handle and begins the bootstrap of the newest file before it reads a
\* line; every line read comes from the file compared last, and once the
\* watcher has switched to a file every record it forwards is a line of it.
SwitchBeforeRead ==
    [][/\ Cardinality(watcher'.handles) <= 1
       /\ (watcher.pc = "find" /\ Rotated /\ watcher' # watcher)
             => /\ watcher'.pc = "boot_read"
                /\ watcher'.current_file = _find_latest_journal(journal)
                /\ watcher'.handles = {_find_latest_journal(journal)}
       /\ watcher'.pc = "emit" /\ watcher.pc # "emit"
             => watcher.pc = "read" /\ watcher.open
                /\ watcher'.line = ReadLine(DataOf(journal, watcher.current_file), watcher.pos)
       /\ (watcher.current_file = J2 /\ forwarded' # forwarded)
             => /\ IsLineOf(forwarded'[Len(forwarded')], DataOf(journal, J2))
                /\ ~IsLineOf(forwarded'[Len(forwarded')], DataOf(journal, J1))
      ]_vars

\* the watcher forwarded a line of the first file, then switched to the
\* second file and forwarded a line of it
ForwardedAcrossRotation ==
    /\ watcher.current_file = J2 /\ watcher.handles = {J2}
    /\ \E i \in 1..Len(forwarded) : \E j \in 1..Len(forwarded) :
          /\ i < j
          /\ IsLineOf(forwarded[i], DataOf(journal, J1))
          /\ IsLineOf(forwarded[j], DataOf(journal, J2))


-----------------------------------------------------------------------------
(* Stopping: the main window calls stop() while the worker thread runs *)

InitStop == InitEngine(NoExoTable, NoPlanetTable)
StopLine == /\ GameWritesLine(J1)

NextStop == StopLine \/ Stop \/ WatcherStep
\* the worker thread keeps running once QThread.start() was called
\* (main_window.py 541)
SpecStop == InitStop /\ [][NextStop]_vars /\ WF_vars(WatcherStep)

\* C14: once stop() has been called, at whatever point of the worker thread,
\* the point before run() begins included, the loop of run() eventually exits
\* and the file handle is released.
StopEndsLoop == watcher.stopped ~> (watcher.pc = "done" /\ watcher.handles = {})

\* C15: no record is forwarded once stop() has been called, wherever the
\* worker thread is at the call.
NothingForwardedAfterStop == [][watcher.stopped => forwarded' = forwarded]_vars


-----------------------------------------------------------------------------
(* I/O faults: for a while opening a file, or reading from it, raises OSError *)

InitFault == InitEngine(NoExoTable, NoPlanetTable)
FaultLine == /\ GameWritesLine(J1)

FaultStrikes ==
    /\ io_fault = "none"
    /\ io_fault' \in {"open", "read"}
    /\ UNCHANGED <<journal, watcher, forwarded>> /\ UNCHANGED engineVars /\ UNCHANGED refVars
FaultClears ==
    /\ io_fault \in {"open", "read"}
    /\ io_fault' = "over"
    /\ UNCHANGED <<journal, watcher, forwarded>> /\ UNCHANGED engineVars /\ UNCHANGED refVars

NextFault == FaultLine \/ FaultStrikes \/ FaultClears \/ WatcherStep
SpecFault == InitFault /\ [][NextFault]_vars /\ WF_vars(WatcherStep)

\* C16: an I/O error in opening or reading does not end the loop, and once
\* the fault has cleared the watcher eventually has the newest journal file
\* open, bootstrapped, and tails it.
FaultClearedRecovers ==
    (io_fault = "over" /\ journal # <<>>)
        ~> (watcher.open /\ watcher.pc = "read"
            /\ watcher.current_file = _find_latest_journal(journal))


-----------------------------------------------------------------------------
(* Lines that are not JSON among the lines of the journal *)

InitJunk == InitEngine(NoExoTable, NoPlanetTable)
GoodLine == /\ GameWritesLine(J1)
JunkLine == /\ GameWritesJunk(J1)

NextJunk == GoodLine \/ JunkLine \/ WatcherStep
SpecJunk == InitJunk /\ [][NextJunk]_vars /\ WF_vars(WatcherStep)

\* the line is not empty and json.loads rejects it
NotWellFormed(line) == ~Blank(line) /\ ~Decodes(line)

\* C17: when the watcher passes a line that is not well-formed, in the
\* bootstrap or while tailing, it skips exactly that line, forwards nothing
\* for it, emits the bad-line notice and keeps running.
BadLineSkippedWithNotice ==
    [][LET line == ReadLine(DataOf(journal, watcher.current_file), watcher.pos)
       IN /\ (watcher.pc = "boot_read" /\ watcher'.pos > watcher.pos /\ NotWellFormed(line))
                => /\ watcher'.pos = watcher.pos + Len(line)
                   /\ forwarded' = forwarded /\ watcher'.events = watcher.events
                   /\ watcher'.pc = "boot_read"
                   /\ watcher'.notice = "Bad journal line (JSON parse failed). Skipped."
          /\ (watcher.pc = "emit" /\ watcher'.pc # "emit" /\ NotWellFormed(watcher.line))
                => /\ forwarded' = forwarded
                   /\ watcher'.pc = "find"
                   /\ watcher'.notice = "Bad journal line (JSON parse failed). Skipped."
      ]_vars


-----------------------------------------------------------------------------
(* Discovered signals of one system *)

SignalNames == {"Lagrange Cloud", "Nav Beacon", "Carrier K7F"}
SignalStamps == {"t1", "t2"}
\* a record as older clients write it, without SignalType
SignalBare(n, ts) == [event |-> "FSSSignalDiscovered", SignalName |-> n, timestamp |-> ts]
\* a record with SignalType
SignalTyped(n, ts) ==
    [event |-> "FSSSignalDiscovered", SignalName |-> n, SignalType |-> "Generic",
     timestamp |-> ts]

InitSignals == InitEngine(NoExoTable, NoPlanetTable)
FoldSignalBare == /\ \E n \in SignalNames : \E ts \in SignalStamps : Fold(SignalBare(n, ts))
FoldSignalTyped == /\ \E n \in SignalNames : \E ts \in SignalStamps : Fold(SignalTyped(n, ts))
NextSignals == FoldSignalBare \/ FoldSignalTyped
SpecSignals == InitSignals /\ [][NextSignals]_vars

\* C18: the discovered-signal list never holds more entries than the cap
\* max_sigs, however many distinct signals were discovered.
SignalsWithinCap == Len(state.system_signals) <= max_sigs

\* the key the record e is filed under
SignalKeyOf(e) ==
    <<OrS(Get(e, "SignalName_Localised", NONE), OrS(Get(e, "SignalName", NONE), "")),
      OrS(Get(e, "SignalType", NONE), OrS(Get(e, "SignalType_Localised", NONE), "")),
      OrS(Get(e, "USSType_Localised", NONE), OrS(Get(e, "USSType", NONE), "")),
      Get(e, "ThreatLevel", NOINT), StationFlag(e)>>

\* C19: an FSSSignalDiscovered record whose key is already in the list leaves
\* the length of the list unchanged; every entry of the list is a signal
\* record, and no two entries have the same key.
SignalRefreshedInPlace ==
    [][/\ (ev'.event = "FSSSignalDiscovered"
           /\ IndexOfKey(state.system_signals, SignalKeyOf(ev')) # 0)
             => Len(state'.system_signals) = Len(state.system_signals)
       /\ \A i \in 1..Len(state'.system_signals) : IsDict(state'.system_signals[i])
       /\ \A i \in 1..Len(state'.system_signals) : \A j \in 1..Len(state'.system_signals) :
             (i # j /\ IsDict(state'.system_signals[i]) /\ IsDict(state'.system_signals[j]))
                => state'.system_signals[i].Key # state'.system_signals[j].Key
      ]_vars


-----------------------------------------------------------------------------
(* Combat contacts: the same ship targeted again *)

Pilots == {"Jameson", "Archer"}
TargetPowers == {"A. Lavigny-Duval", "Zachary Hudson"}
\* the raw pilot name the game writes beside the readable one
RawPilot(p) == IF p = "Archer" THEN "$npc_name_decorate:#name=Archer;" ELSE p
\* a completed scan of the ship of pilot p; pw is its Power, NONE when the
\* record has no Power
FinalScan(p, pw, ts) ==
    LET base == [event |-> "ShipTargeted", TargetLocked |-> TRUE, ScanStage |-> 3,
                 Ship |-> "anaconda", Ship_Localised |-> "Anaconda",
                 PilotName |-> RawPilot(p), PilotName_Localised |-> p,
                 PilotRank |-> "Elite", Faction |-> "Pirates",
                 LegalStatus |-> "Wanted", Bounty |-> 600000, timestamp |-> ts]
    IN IF pw = NONE THEN base ELSE Put(base, "Power", pw)
PledgeTo(pw) == [event |-> "Powerplay", Power |-> pw]

\* the rows of the contact table that show the pilot, ship and faction of e
RowsOf(s, e) ==
    {k \in DOMAIN s.combat_contacts :
        /\ s.combat_contacts[k].Pilot = e.PilotName_Localised
        /\ s.combat_contacts[k].Ship = e.Ship_Localised
        /\ s.combat_contacts[k].Faction = e.Faction}
ShownPower(e) == IF Has(e, "Power") THEN e.Power ELSE ""

InitTargets == InitEngine(NoExoTable, NoPlanetTable)
\* a ship is scanned for the first time
TargetFirst ==
    /\ \E p \in Pilots : \E pw \in TargetPowers \cup {NONE} :
          /\ RowsOf(state, FinalScan(p, pw, "t1")) = {}
          /\ Fold(FinalScan(p, pw, "t1"))
\* a ship in the table is scanned again and shows another Power
TargetAgainOtherPower ==
    /\ \E p \in Pilots : \E pw \in TargetPowers \cup {NONE} :
          /\ \E k \in RowsOf(state, FinalScan(p, pw, "t2")) :
                state.combat_contacts[k].Power # ShownPower(FinalScan(p, pw, "t2"))
          /\ Fold(FinalScan(p, pw, "t2"))
TargetDropped == /\ Fold([event |-> "ShipTargeted", TargetLocked |-> FALSE])
TargetPledge == /\ \E pw \in TargetPowers : Fold(PledgeTo(pw))
TargetArrive == /\ \E e \in LocationEvents : Fold(e)

NextTargets ==
    TargetFirst \/ TargetAgainOtherPower \/ TargetDropped \/ TargetPledge \/ TargetArrive
SpecTargets == InitTargets /\ [][NextTargets]_vars

FinalScans == {FinalScan(p, pw, ts) : p \in Pilots, pw \in TargetPowers \cup {NONE}, ts \in {"t1", "t2"}}

-----------------------------------------------------------------------------
(* Alerts on targeted ships *)

\* what the record says about the scan stage: a stage number, a value that
\* is not an integer, or nothing
ScanStages == {"low", "final", "not an integer", "absent"}
\* a locked target; hot is a Wanted Elite pilot with a bounty over the
\* threshold, otherwise the pilot is clean
TargetScan(stage, pw, hot) ==
    LET base == [event |-> "ShipTargeted", TargetLocked |-> TRUE,
                 Ship |-> "anaconda", PilotName |-> "Jameson", Faction |-> "Pirates",
                 PilotRank |-> IF hot THEN "Elite" ELSE "Novice",
                 LegalStatus |-> IF hot THEN "Wanted" ELSE "Clean",
                 Bounty |-> IF hot THEN BountyThreshold ELSE 0, timestamp |-> "t1"]
        staged == CASE stage = "low" -> Put(base, "ScanStage", 0)
                    [] stage = "final" -> Put(base, "ScanStage", FinalScanStage)
                    [] stage = "not an integer" -> Put(base, "ScanStage", NOINT)
                    [] OTHER -> base
    IN IF pw = NONE THEN staged ELSE Put(staged, "Power", pw)
TargetScans ==
    {TargetScan(st, pw, hot) : st \in ScanStages, pw \in TargetPowers \cup {NONE},
                               hot \in BOOLEAN}

InitAlerts == InitEngine(NoExoTable, NoPlanetTable)
AlertScan == /\ \E e \in TargetScans : Fold(e)
AlertDropped == /\ Fold([event |-> "ShipTargeted", TargetLocked |-> FALSE])
AlertPledge == /\ \E pw \in TargetPowers : Fold(PledgeTo(pw))
AlertArrive == /\ \E e \in LocationEvents : Fold(e)
AlertJump == /\ \E e \in StartJumpEvents \cup FSDJumpEvents : Fold(e)
NextAlerts == AlertScan \/ AlertDropped \/ AlertPledge \/ AlertArrive \/ AlertJump
SpecAlerts == InitAlerts /\ [][NextAlerts]_vars

\* the fold of the record raised an alert: a notice, or a new alert text
AlertRaised ==
    \/ msgs' # <<>>
    \/ (state'.current_contact_alert # NoAlert
        /\ state'.current_contact_alert # state.current_contact_alert)

\* C21: a ShipTargeted record raises an alert only if its ScanStage is the
\* final stage; a record whose ScanStage is lower, absent or not an integer
\* raises none.
AlertOnlyAtFinalStage ==
    [][(ev'.event = "ShipTargeted" /\ AlertRaised)
          => (Has(ev', "ScanStage") /\ ev'.ScanStage = FinalScanStage)]_vars

\* rule (a): the system belongs to the power the player is pledged to and
\* the contact shows another power
EnemyInMySpace(s, e) ==
    /\ TruthyS(s.pp_power) /\ s.system_controlling_power = s.pp_power
    /\ TruthyS(Get(e, "Power", NONE)) /\ e.Power # s.pp_power
\* rule (b): Wanted, bounty at least the threshold, rank Dangerous or higher
HighBounty(e) ==
    /\ Get(e, "LegalStatus", NONE) = "Wanted"
    /\ Get(e, "Bounty", NOINT) # NOINT /\ e.Bounty >= BountyThreshold
    /\ Get(e, "PilotRank", NONE) \in {"Dangerous", "Deadly", "Elite"}

\* C22: a final-stage ShipTargeted record with a locked target produces an
\* alert notice if and only if rule (a) or rule (b) holds; rule (b) applies in
\* every system and whether or not the player is pledged.
AlertIffRule ==
    [][(ev' \in TargetScans /\ Has(ev', "ScanStage") /\ ev'.ScanStage = FinalScanStage)
          => ((msgs' # <<>>) <=> (EnemyInMySpace(state, ev') \/ HighBounty(ev')))]_vars


-----------------------------------------------------------------------------
(* Estimates from the planet value table *)

\* a table without Water World rows
FewPlanetRows ==
    (<<"High Metal Content Planet", FALSE>> :>
         [fss |-> 30, fss_dss |-> 31, fss_fd |-> 32, fss_fd_dss |-> 33])
    @@ (<<"High Metal Content Planet", TRUE>> :>
         [fss |-> 40, fss_dss |-> 41, fss_fd |-> 42, fss_fd_dss |-> 43])
FewPlanetTable == [loaded |-> TRUE, rows |-> FewPlanetRows]
PlanetClasses ==
    {"Water world", "Water World", "High metal content body", "High Metal Content Planet",
     "Nebula cloud", ""}

InitEstimate == \E pv \in {PlanetTable, FewPlanetTable} : InitEngine(NoExoTable, pv)
Estimate ==
    /\ \E pc \in PlanetClasses : \E tf \in BOOLEAN : \E mapped \in BOOLEAN : \E fd \in BOOLEAN :
          answer' = [tick |-> ~answer.tick, query |-> <<pc, tf, mapped, fd>>,
                     value |-> <<estimate(planet_values, pc, tf, mapped, fd)>>,
                     parsed |-> FALSE]
    /\ UNCHANGED <<doc, table>> /\ UNCHANGED engineVars /\ UNCHANGED watcherVars
NextEstimate == Estimate
SpecEstimate == InitEstimate /\ [][NextEstimate]_vars

\* the planet type of the table that a journal planet class stands for
TableTypeOf(pc) ==
    CASE pc \in {"Water world", "Water World"} -> "Water World"
      [] pc \in {"High metal content body", "High Metal Content Planet"}
            -> "High Metal Content Planet"
      [] OTHER -> NONE

\* C23: when the table has a row for the planet type and the terraformable
\* flag asked for, estimate returns fss_fd_dss of that row for a body that is
\* first-discovered and mapped, fss_fd for first-discovered and not mapped,
\* fss_dss for mapped and not first-discovered, and fss otherwise; it returns
\* no value when the table has no such row.
EstimateByRow ==
    answer.query # <<>> =>
        LET pt == TableTypeOf(answer.query[1])
            tf == answer.query[2]
            mapped == answer.query[3]
            fd == answer.query[4]
            rows == planet_values.rows
        IN IF pt # NONE /\ <<pt, tf>> \in DOMAIN rows
           THEN /\ (fd /\ mapped) => answer.value = <<rows[<<pt, tf>>].fss_fd_dss>>
                /\ (fd /\ ~mapped) => answer.value = <<rows[<<pt, tf>>].fss_fd>>
                /\ (~fd /\ mapped) => answer.value = <<rows[<<pt, tf>>].fss_dss>>
                /\ (~fd /\ ~mapped) => answer.value = <<rows[<<pt, tf>>].fss>>
           ELSE answer.value = <<NOINT>>

\* a Water World that is not terraformable, first-discovered and not mapped,
\* is estimated at the fss_fd figure of its row
WaterWorldFirstDiscovered ==
    /\ answer.query = <<"Water world", FALSE, FALSE, TRUE>>
    /\ answer.value = <<12>>


-----------------------------------------------------------------------------
(* A body is scanned and then mapped *)

BodyB == <<"B", SP, "2">>
\* the Scan record of a planet as the journal writes it
PlanetScan(b, pc, ts, wd, wm) ==
    [event |-> "Scan", BodyName |-> b, BodyID |-> IF b = BodyA THEN 1 ELSE 2,
     PlanetClass |-> pc, TerraformState |-> ts, WasDiscovered |-> wd, WasMapped |-> wm]
PlanetScans ==
    {PlanetScan(b, pc, ts, wd, wm) :
        b \in {BodyA, BodyB}, pc \in {"Water world", "High metal content body"},
        ts \in {"Terraformable", ""}, wd \in BOOLEAN, wm \in BOOLEAN}
MappingDone(b) == [event |-> "SAAScanComplete", BodyName |-> b,
                   BodyID |-> IF b = BodyA THEN 1 ELSE 2]

InitMapped == InitEngine(NoExoTable, PlanetTable)
MapScan == /\ \E e \in PlanetScans : Fold(e)
MapComplete == /\ \E b \in {BodyA, BodyB} : Fold(MappingDone(b))
NextMapped == MapScan \/ MapComplete
SpecMapped == InitMapped /\ [][NextMapped]_vars

\* the figure of the table row for the planet the Scan record e describes,
\* for a mapped body with the first-discovered flag of e; NOINT without a row
MappedFigure(rows, e) ==
    LET key == <<TableTypeOf(e.PlanetClass), e.TerraformState = "Terraformable">>
    IN IF key \notin DOMAIN rows THEN NOINT
       ELSE IF ~e.WasDiscovered THEN rows[key].fss_fd_dss ELSE rows[key].fss_dss

\* C24: when the Scan record of a body is followed by the SAAScanComplete
\* record of the same body, the body record is marked mapped and its estimated
\* value is the mapped figure of the table row of the scanned planet type and
\* terraformability, for the first-discovered flag the Scan recorded.
MappedValueFromScanRow ==
    [][(ev \in PlanetScans /\ ev'.event = "SAAScanComplete" /\ ev'.BodyName = ev.BodyName)
          => /\ ev.BodyName \in DOMAIN state'.bodies
             /\ Get(state'.bodies[ev.BodyName], "Mapped", FALSE) = TRUE
             /\ Get(state'.bodies[ev.BodyName], "EstimatedValue", NOINT)
                   = MappedFigure(planet_values.rows, ev)]_vars


-----------------------------------------------------------------------------
(* Inventory snapshots with repeated names *)

MaxItems == 3           \* a category list holds at most this many entries
\* entries of a category list: two spellings of one name, another name, and
\* an entry without a count
ItemEntries ==
    {[Name |-> "iron", Count |-> 1], [Name |-> "Iron", Count |-> 2],
     [Name |-> "nickel", Count |-> 1], [Name |-> "iron"]}
RECURSIVE ItemLists(_)
ItemLists(n) == IF n = 0 THEN {<<>>}
                ELSE ItemLists(n - 1)
                     \cup {Append(l, x) : l \in {y \in ItemLists(n - 1) : Len(y) = n - 1},
                                          x \in ItemEntries}

InitInventory == InitEngine(NoExoTable, NoPlanetTable)
InventoryMaterials ==
    /\ \E l \in ItemLists(MaxItems) : Fold([event |-> "Materials", Raw |-> l])
InventoryShipLocker ==
    /\ \E l \in ItemLists(MaxItems) : Fold([event |-> "ShipLocker", Items |-> l])
NextInventory == InventoryMaterials \/ InventoryShipLocker
SpecInventory == InitInventory /\ [][NextInventory]_vars

\* the sum of the counts of the well-formed entries of items named k,
\* whatever the case of the letters
RECURSIVE CountOf(_, _)
CountOf(items, k) ==
    IF Len(items) = 0 THEN 0
    ELSE CountOf(Tail(items), k)
         + (IF Has(Head(items), "Name") /\ Has(Head(items), "Count")
               /\ LowerName(Head(items).Name) = k
            THEN Head(items).Count ELSE 0)
NamesIn(items) ==
    {LowerName(items[i].Name) :
        i \in {x \in 1..Len(items) : Has(items[x], "Name") /\ Has(items[x], "Count")}}
\* counts maps each name of items to the sum of its counts
SumsEntries(counts, items) ==
    /\ DOMAIN counts = NamesIn(items)
    /\ \A k \in NamesIn(items) : counts[k] = CountOf(items, k)

\* C25: after a Materials or ShipLocker record, the count of a name in the
\* mapping of a category is the sum of the counts of all well-formed entries
\* of the list with that name, not the count of the last such entry.
CountsAreSummed ==
    /\ ev.event = "Materials" => SumsEntries(state.materials_raw, ev.Raw)
    /\ ev.event = "ShipLocker" => SumsEntries(state.shiplocker_items, ev.Items)


-----------------------------------------------------------------------------
(* The credit balance carried by a record *)

\* the record e without its Credits field
WithoutCredits(e) == Drop(e, {"Credits"})

\* C26: a record with an integer Credits field sets the credits counter and
\* has no other effect: the state after the record is the state after the
\* same record without its Credits field, but for the credits counter.
CreditsChangeOnlyCredits ==
    [][ IsInt(Get(ev', "Credits", NOINT))
        => state' = [process(state, WithoutCredits(ev'), planet_values, exo_values,
                             external_intel).s
                     EXCEPT !.credits = ev'.Credits] ]_vars


-----------------------------------------------------------------------------
(* The session ledgers under sales of any amount *)

Amounts == {0 - 1, 0, 1}

InitLedger == InitEngine(NoExoTable, NoPlanetTable)
LedgerMultiSell ==
    /\ \E a \in Amounts : Fold([event |-> "MultiSellExplorationData", TotalEarnings |-> a])
LedgerRedeemVoucher ==
    /\ \E a \in Amounts : Fold([event |-> "RedeemVoucher", Amount |-> a])
LedgerSellOrganicData ==
    /\ \E a \in Amounts : \E b \in Amounts :
          Fold([event |-> "SellOrganicData", BioData |-> <<[Value |-> a, Bonus |-> b]>>])
LedgerCodexVoucher ==
    /\ \E a \in Amounts : Fold([event |-> "CodexEntry", VoucherAmount |-> a])
NextLedger ==
    LedgerMultiSell \/ LedgerRedeemVoucher \/ LedgerSellOrganicData \/ LedgerCodexVoucher
SpecLedger == InitLedger /\ [][NextLedger]_vars

\* C27: no record makes a session earnings counter (exploration, exobiology
\* sold, vouchers, codex) smaller, whatever the amount it carries.
LedgersNeverDecrease ==
    [][ /\ state'.session_exploration_earnings >= state.session_exploration_earnings
        /\ state'.session_exo_earnings >= state.session_exo_earnings
        /\ state'.session_exobio_earnings >= state.session_exobio_earnings
        /\ state'.session_voucher_earnings >= state.session_voucher_earnings
        /\ state'.session_codex_collected >= state.session_codex_collected ]_vars


-----------------------------------------------------------------------------
(* Reference documents and the tables cached from them: the advisory store  *)
(* (external_pois.json), the item catalog (inara_items_catalog.json) and    *)
(* the farming locations (elite_farming_locations.json)                     *)

MaxTime == 3            \* the document is written at most this many times

TableKinds == {"pois", "catalog", "farming"}
\* the texts a document can hold: two versions of a well-formed document, a
\* JSON list where an object is expected, and a text that is not JSON
DocTexts == {"v1", "v2", "list", "broken"}

\* what json.loads gives for the text of a document of a kind
JsonOf(kind, text) ==
    CASE text = "list" -> NonDict
      [] kind = "pois" /\ text = "v1" ->
            [systems |-> ("Sol" :> <<"poi-sol-1">>), system_addresses |-> (2 :> <<"poi-at-2">>)]
      [] kind = "pois" /\ text = "v2" ->
            [systems |-> ("Sol" :> <<"poi-sol-2">>) @@ ("Achenar" :> <<"poi-achenar-2">>)]
      [] kind = "catalog" /\ text = "v1" ->
            [items |-> <<[name |-> "Iron", type |-> "Raw"]>>]
      [] kind = "catalog" /\ text = "v2" ->
            [items |-> <<[name |-> "Iron", type |-> "Element"],
                         [name |-> "Health Pack", type |-> "Item"]>>]
      [] kind = "farming" /\ text = "v1" ->
            [farming_locations |-> [raw |-> <<[name |-> "Site A", system |-> "Sol"]>>]]
      [] kind = "farming" /\ text = "v2" ->
            [farming_locations |-> [raw |-> <<[name |-> "Site B", system |-> "Sol"],
                                             [name |-> "Site C", system |-> "Achenar"]>>]]

\* the empty indexes of a table of a kind (external_intel.py 29-30,
\* item_catalog.py 62-63, farming_locations.py 58-60); the fields no point
\* query reads (records, by_material, bgs_tips, last_updated) are left out
EmptyOf(kind) ==
    CASE kind = "pois" -> [systems |-> EmptyDict, addresses |-> EmptyDict]
      [] kind = "catalog" -> [by_name |-> EmptyDict, count |-> 0]
      [] kind = "farming" -> [by_system |-> EmptyDict]

\* external_intel.py 41-63: the indexes of the advisory store; the documents
\* hold no two names that differ in case only, so no lists are merged
IndexPois(data) ==
    LET systems == IF IsDict(data) THEN Get(data, "systems", EmptyDict) ELSE EmptyDict
        addrs == IF IsDict(data) THEN Get(data, "system_addresses", EmptyDict) ELSE EmptyDict
    IN [systems |-> [nk \in {_k(k) : k \in DOMAIN systems} \ {""} |->
                        systems[CHOOSE k \in DOMAIN systems : _k(k) = nk]],
        addresses |-> addrs]

\* item_catalog.py 75-112: the index of the catalog by lower-cased name
IndexCatalog(data) ==
    LET items == IF IsDict(data) THEN Get(data, "items", <<>>) ELSE <<>>
        named == SelectSeq(items, LAMBDA rec : TruthyS(Get(rec, "name", NONE)))
    IN [by_name |-> [k \in {LowerName(named[i].name) : i \in 1..Len(named)} |->
                        LET last == CHOOSE i \in 1..Len(named) :
                                        /\ LowerName(named[i].name) = k
                                        /\ \A j \in (i + 1)..Len(named) :
                                              LowerName(named[j].name) # k
                        IN Update(named[last], [locations |-> <<>>])],
        count |-> Len(named)]

\* farming_locations.py 78-135: the index of the sites by lower-cased system;
\* the documents hold one domain
IndexFarming(data) ==
    LET farming == IF IsDict(data) THEN Get(data, "farming_locations", EmptyDict)
                   ELSE EmptyDict
        arr == Get(farming, "raw", <<>>)
        out(rec) == Update(rec, [domain |-> "raw", key_materials |-> <<>>])
        placed == SelectSeq(arr, LAMBDA rec : TruthyS(Get(rec, "system", NONE)))
    IN [by_system |-> [sk \in {_k(placed[i].system) : i \in 1..Len(placed)} |->
                          LET here == SelectSeq(placed, LAMBDA rec : _k(rec.system) = sk)
                          IN [i \in 1..Len(here) |-> out(here[i])]]]

IndexOf(kind, data) ==
    CASE kind = "pois" -> IndexPois(data)
      [] kind = "catalog" -> IndexCatalog(data)
      [] kind = "farming" -> IndexFarming(data)

\* a load that trusts its cache whenever it has one, whatever the
\* modification time of the document
_load_cached(t, d, force) ==
    IF ~d.exists
    THEN [t |-> [t EXCEPT !.data = EmptyOf(t.kind), !.mtime = NOINT], parsed |-> FALSE]
    ELSE IF (~force) /\ t.mtime # NOINT
    THEN [t |-> t, parsed |-> FALSE]
    ELSE IF d.text = "broken"
    THEN [t |-> [t EXCEPT !.data = EmptyOf(t.kind), !.mtime = NOINT, !.tried = d.mtime],
          parsed |-> TRUE]
    ELSE [t |-> [t EXCEPT !.data = IndexOf(t.kind, JsonOf(t.kind, d.text)),
                          !.mtime = d.mtime, !.tried = d.mtime],
          parsed |-> TRUE]

\* external_intel.py 26-69, item_catalog.py 59-118, farming_locations.py
\* 55-143: _load of the table t from the document d. parsed tells whether
\* the text was read and handed to json.loads.
_load(t, d, force) ==
    IF ~d.exists
    THEN [t |-> [t EXCEPT !.data = EmptyOf(t.kind), !.mtime = NOINT], parsed |-> FALSE]
    ELSE IF (~force) /\ t.mtime # NOINT /\ d.mtime = t.mtime
    THEN [t |-> t, parsed |-> FALSE]
    ELSE IF d.text = "broken"
    THEN \* json.loads raises: the except branch empties the table
         [t |-> [t EXCEPT !.data = EmptyOf(t.kind), !.mtime = NOINT, !.tried = d.mtime],
          parsed |-> TRUE]
    ELSE [t |-> [t EXCEPT !.data = IndexOf(t.kind, JsonOf(t.kind, d.text)),
                          !.mtime = d.mtime, !.tried = d.mtime],
          parsed |-> TRUE]

\* item_catalog.py 128-134: ItemCatalog.get after its _load; None is the
\* empty list, a record the list of that record
catalog_get(data, name) ==
    IF LowerName(name) = "" THEN <<>>
    ELSE IF LowerName(name) \in DOMAIN data.by_name THEN <<data.by_name[LowerName(name)]>>
    ELSE <<>>

\* farming_locations.py 145-151: FarmingLocations.get_for_system after its
\* _load
get_for_system(data, system_name) ==
    IF _k(system_name) = "" THEN <<>>
    ELSE IF _k(system_name) \in DOMAIN data.by_system THEN data.by_system[_k(system_name)]
    ELSE <<>>

\* the game or the user writes the document: a new text and a later
\* modification time
DocWritten ==
    /\ doc.mtime < MaxTime
    /\ \E text \in DocTexts : doc' = [exists |-> TRUE, mtime |-> doc.mtime + 1, text |-> text]
    /\ UNCHANGED <<table, answer>>
    /\ UNCHANGED engineVars /\ UNCHANGED watcherVars

DocDeleted ==
    /\ doc.exists
    /\ doc' = [doc EXCEPT !.exists = FALSE, !.text = ""]
    /\ UNCHANGED <<table, answer>>
    /\ UNCHANGED engineVars /\ UNCHANGED watcherVars

\* external_intel.py 16-21, item_catalog.py 38-46, farming_locations.py
\* 31-45: __init__ ends with _load(force=True)
Construct ==
    /\ table.kind = NONE
    /\ \E kind \in TableKinds : table' = _load([NewTable EXCEPT !.kind = kind], doc, TRUE).t
    /\ UNCHANGED <<doc, answer>>
    /\ UNCHANGED engineVars /\ UNCHANGED watcherVars

Answered(l, q, value) ==
    /\ table' = l.t
    /\ answer' = [tick |-> ~answer.tick, query |-> q, value |-> value, parsed |-> l.parsed]
    /\ UNCHANGED doc
    /\ UNCHANGED engineVars /\ UNCHANGED watcherVars

PoiNames == {"Sol", "Achenar"}
PoiAddresses == {2, NOINT}
CatalogNames == {"Iron", "iron", "Health Pack", ""}

\* external_intel.py 71-89: ExternalIntel.get_pois
QueryPois ==
    /\ table.kind = "pois"
    /\ \E n \in PoiNames : \E a \in PoiAddresses :
          Answered(_load(table, doc, FALSE), <<n, a>>,
                   get_pois(_load(table, doc, FALSE).t.data, n, a))

\* item_catalog.py 128-134: ItemCatalog.get
QueryCatalog ==
    /\ table.kind = "catalog"
    /\ \E n \in CatalogNames :
          Answered(_load(table, doc, FALSE), <<n>>,
                   catalog_get(_load(table, doc, FALSE).t.data, n))

\* farming_locations.py 145-151: FarmingLocations.get_for_system
QueryFarming ==
    /\ table.kind = "farming"
    /\ \E n \in PoiNames :
          Answered(_load(table, doc, FALSE), <<n>>,
                   get_for_system(_load(table, doc, FALSE).t.data, n))

InitRef == InitEngine(NoExoTable, NoPlanetTable)
NextRef == DocWritten \/ DocDeleted \/ Construct \/ QueryPois \/ QueryCatalog \/ QueryFarming
SpecRef == InitRef /\ [][NextRef]_vars

\* a step that answers a query
IsQuery == answer'.tick # answer.tick

\* the answer read from an index of the table
Lookup(kind, data, q) ==
    CASE kind = "pois" -> get_pois(data, q[1], q[2])
      [] kind = "catalog" -> catalog_get(data, q[1])
      [] kind = "farming" -> get_for_system(data, q[1])

\* what a JSON document says about the query q: the entries filed under the
\* address and under the name of the system, the item of that name, the
\* sites of that system, names compared without regard to case
SaysAbout(kind, json, q) ==
    IF ~IsDict(json) THEN <<>>
    ELSE CASE kind = "pois" ->
                 (IF q[2] # NOINT /\ q[2] \in DOMAIN Get(json, "system_addresses", EmptyDict)
                  THEN json.system_addresses[q[2]] ELSE <<>>)
                 \o (IF \E k \in DOMAIN json.systems : _k(k) = _k(q[1])
                     THEN json.systems[CHOOSE k \in DOMAIN json.systems : _k(k) = _k(q[1])]
                     ELSE <<>>)
           [] kind = "catalog" ->
                 LET hit == {i \in 1..Len(json.items) :
                               LowerName(json.items[i].name) = LowerName(q[1])}
                 IN IF hit = {} \/ q[1] = "" THEN <<>>
                    ELSE <<Update(json.items[CHOOSE i \in hit : \A j \in hit : j <= i],
                                  [locations |-> <<>>])>>
           [] kind = "farming" ->
                 LET here == SelectSeq(json.farming_locations.raw,
                                       LAMBDA rec : _k(rec.system) = _k(q[1]))
                 IN [i \in 1..Len(here) |->
                        Update(here[i], [domain |-> "raw", key_materials |-> <<>>])]

\* C28: a query made after the modification time of the document changed
\* answers from the new contents; a query made while the modification time
\* is the one of the last successful load answers from the cached contents
\* and does not parse the document; a query made after the document was
\* deleted answers from an empty table.
QueryFollowsDocument ==
    [][ IsQuery =>
          /\ (~doc.exists) =>
                /\ table'.data = EmptyOf(table.kind)
                /\ answer'.value = <<>>
          /\ (doc.exists /\ table.mtime = doc.mtime) =>
                /\ ~answer'.parsed
                /\ table'.data = table.data
                /\ answer'.value = Lookup(table.kind, table.data, answer'.query)
          /\ (doc.exists /\ table.mtime # doc.mtime /\ doc.text # "broken") =>
                answer'.value = SaysAbout(table.kind, JsonOf(table.kind, doc.text),
                                          answer'.query) ]_vars

\* the second version of the document was written over a loaded first one
\* and a query has read an entry of it
AnsweredFromRewrite ==
    /\ doc.exists /\ doc.text = "v2" /\ doc.mtime >= 2
    /\ table.mtime = doc.mtime
    /\ answer.parsed
    /\ answer.value # <<>>
    /\ answer.value = SaysAbout(table.kind, JsonOf(table.kind, "v2"), answer.query)
    /\ answer.value # SaysAbout(table.kind, JsonOf(table.kind, "v1"), answer.query)

\* C29: when the document is not well-formed JSON the load leaves the table
\* empty, the query answers the neutral value, a later query on the same
\* unchanged document does not read and parse it again, and the first query
\* after the document was repaired answers from the repaired contents.
MalformedDocumentIsCheap ==
    [][ IsQuery =>
          /\ (doc.exists /\ doc.text = "broken") =>
                /\ table'.data = EmptyOf(table.kind)
                /\ answer'.value = <<>>
                /\ (table.tried = doc.mtime => ~answer'.parsed)
          /\ (doc.exists /\ doc.text \in {"v1", "v2"} /\ table.tried # doc.mtime) =>
                answer'.value = SaysAbout(table.kind, JsonOf(table.kind, doc.text),
                                          answer'.query) ]_vars


-----------------------------------------------------------------------------
(* The bootstrap of a file that holds more events than the cap *)

\* the events of the lines of data from position pos on that json.loads
\* decodes, in file order
RECURSIVE DecodableFrom(_, _)
DecodableFrom(data, pos) ==
    IF ReadLine(data, pos) = <<>> THEN <<>>
    ELSE (IF Decodes(ReadLine(data, pos)) THEN <<Decoded(ReadLine(data, pos))>> ELSE <<>>)
         \o DecodableFrom(data, pos + Len(ReadLine(data, pos)))

\* the decodable events of the last max_bytes of the open file, the line the
\* window begins in left out
TailWindow ==
    LET data == DataOf(journal, watcher.current_file)
        start == Max(0, Len(data) - max_bytes)
    IN DecodableFrom(data, IF start > 0 THEN start + Len(ReadLine(data, start)) ELSE 0)

LastBoundaryOf(events) ==
    CHOOSE i \in 1..Len(events) :
        IsBoundary(events[i]) /\ \A j \in (i + 1)..Len(events) : ~IsBoundary(events[j])

\* C30: when the bootstrap is over and the tail window of the file held a
\* decodable line, the events it forwarded end with the last decodable line
\* of the file, and they begin at the latest Location or FSDJump of the whole
\* window when it holds one, also when the window holds more events than the
\* cap.
BootstrapEndsWithNewest ==
    (watcher.pc = "seek_end" /\ TailWindow # <<>>) =>
        LET B == BootstrapForwarded
            W == TailWindow
        IN /\ B # <<>>
           /\ B[Len(B)] = W[Len(W)]
           /\ (\E i \in 1..Len(W) : IsBoundary(W[i])) => B[1] = W[LastBoundaryOf(W)]


-----------------------------------------------------------------------------
(* Signals attached to a body and the scan of the body *)

\* the record of the body named b carries the signal counts and the genus
\* list the state s holds for b
CarriesAttachments(rec, s, b) ==
    /\ b \in DOMAIN s.bio_signals => Get(rec, "BioSignals", NOINT) = s.bio_signals[b]
    /\ b \in DOMAIN s.geo_signals => Get(rec, "GeoSignals", NOINT) = s.geo_signals[b]
    /\ b \in DOMAIN s.bio_genuses => Get(rec, "BioGenuses", NoText) = s.bio_genuses[b]

\* C31: a Scan record of a body to which an FSSBodySignals or SAASignalsFound
\* record has attached signal counts or a genus list leaves those values on
\* the body record together with the scan fields, and a signals record that
\* follows the Scan leaves the scan fields beside the values it attaches.
ScanKeepsAttachedSignals ==
    [][ LET b == _norm_text(Get(ev', "BodyName", NoText))
        IN /\ ev'.event = "Scan" =>
                /\ b \in DOMAIN state'.bodies
                /\ Has(state'.bodies[b], "PlanetClass")
                /\ CarriesAttachments(state'.bodies[b], state, b)
           /\ (/\ ev'.event \in {"FSSBodySignals", "SAASignalsFound"}
               /\ b \in DOMAIN state.bodies
               /\ Has(state.bodies[b], "PlanetClass")) =>
                /\ Has(state'.bodies[b], "PlanetClass")
                /\ CarriesAttachments(state'.bodies[b], state', b) ]_vars


-----------------------------------------------------------------------------
(* The watcher feeding the engine: attach, rotation, stop and restart *)

LedgerKinds == {"MultiSellExplorationData", "RedeemVoucher", "SellOrganicData",
                "ScanOrganic", "Location"}

\* what json.loads gives for the line of a forwarded event: a sale or a
\* redeemed voucher of one credit, a Sample scan, an arrival at Sol
RecordOf(f) ==
    CASE f.event = "MultiSellExplorationData" -> SellExplorationA
      [] f.event = "RedeemVoucher" -> VoucherA
      [] f.event = "SellOrganicData" -> SellOrganicA
      [] f.event = "ScanOrganic" -> OrganicOf(G_STRATUM, S_STRATUM, "Sample")
      [] OTHER -> LocationBare("Sol")

\* the game writes a whole line of one of the ledger kinds to the file f
GameWritesLedgerLine(f) ==
    /\ Cardinality(Serials(journal)) < MaxLines
    /\ \E k \in LedgerKinds :
          journal' = Written(journal, f,
                             <<HeadOf(Cardinality(Serials(journal)) + 1, k, Attached(f)),
                               TailOf(Cardinality(Serials(journal)) + 1), NL>>)
    /\ UNCHANGED <<watcher, forwarded, io_fault>> /\ UNCHANGED engineVars /\ UNCHANGED refVars

InitRestart == InitEngine(NoExoTable, NoPlanetTable)
RestartOldLine == /\ ~HasFile(journal, J2) /\ GameWritesLedgerLine(J1)
RestartNewLine == /\ HasFile(journal, J1) /\ GameWritesLedgerLine(J2)

\* main_window.py 512-543: start_watching once the previous worker thread
\* has ended: a new JournalWatcher is made and its thread started; the
\* engine and its state stay
StartWatching ==
    /\ watcher.pc = "done"
    /\ Len(forwarded) < MaxReplay
    /\ watcher' = NewWatcher
    /\ UNCHANGED <<journal, forwarded, io_fault>> /\ UNCHANGED engineVars /\ UNCHANGED refVars

\* main_window.py 567-574: _on_event runs in the main thread for each
\* forwarded event, in the order of the emits; nfold counts the events taken
OnEvent ==
    /\ nfold < Len(forwarded) /\ nfold < MaxReplay
    /\ Fold(RecordOf(forwarded[nfold + 1]))

NextRestart ==
    \/ RestartOldLine \/ RestartNewLine \/ Stop \/ StartWatching \/ OnEvent \/ WatcherStep
SpecRestart == InitRestart /\ [][NextRestart]_vars

\* the number of lines of kind k the journal files hold
LinesOfKind(k) ==
    Cardinality(UNION { {journal[i].data[x].n :
                            x \in {y \in 1..Len(journal[i].data) :
                                      /\ journal[i].data[y].t = "head"
                                      /\ journal[i].data[y].k = k}} :
                        i \in 1..Len(journal) })

\* C32: whatever the sequence of attach, rotation, stop and restart, each
\* sale and voucher line of the journal is added to its ledger at most once
\* and each Sample line advances its exo record at most once: a ledger holds
\* no more credits, and the record no more samples, than the journal holds
\* lines of that kind.
EachLineCountedOnce ==
    /\ state.session_exploration_earnings <= LinesOfKind("MultiSellExplorationData")
    /\ state.session_voucher_earnings <= LinesOfKind("RedeemVoucher")
    /\ state.session_exo_earnings <= LinesOfKind("SellOrganicData")
    /\ Progress(state.exo, ExoKey(1, G_STRATUM, S_STRATUM)) <= LinesOfKind("ScanOrganic")


-----------------------------------------------------------------------------
(* The controlling power of the system of arrival *)

\* C33: after a Location or FSDJump record that carries ControllingPower P,
\* the controlling power of the system in the state is P, also when a
\* StartJump record came before the FSDJump.
ArrivalSetsControllingPower ==
    [][ (ev'.event \in {"Location", "FSDJump"} /\ TruthyS(Get(ev', "ControllingPower", NONE)))
        => state'.system_controlling_power = ev'.ControllingPower ]_vars


-----------------------------------------------------------------------------
(* The advisory list across arrivals, with and without a system address *)

HyperJump(n) == [event |-> "StartJump", JumpType |-> "Hyperspace", StarSystem |-> n,
                 StarClass |-> "G"]

InitIntel == InitEngine(NoExoTable, NoPlanetTable)
IntelLocation == /\ \E n \in SystemNames : \E e \in {LocationFull(n), LocationBare(n)} : Fold(e)
IntelFSDJump == /\ \E n \in SystemNames : \E e \in {FSDJumpFull(n), FSDJumpBare(n)} : Fold(e)
IntelStartJump == /\ \E n \in SystemNames : Fold(HyperJump(n))
IntelScan == /\ Fold(ScanOf(BodyA))
IntelSAASignalsFound == /\ Fold(SignalsFoundA)
IntelShipTargeted == /\ Fold(FinalScan("Jameson", NONE, "t1"))
NextIntel ==
    \/ IntelLocation \/ IntelFSDJump \/ IntelStartJump \/ IntelScan \/ IntelSAASignalsFound
    \/ IntelShipTargeted
SpecIntel == InitIntel /\ [][NextIntel]_vars

\* the entries the store holds under the name or under the address of the
\* system n
EntriesFor(xi, n) ==
    {x \in UNION {{xi.systems[k][i] : i \in 1..Len(xi.systems[k])} : k \in DOMAIN xi.systems} :
        _k(n) \in DOMAIN xi.systems /\ \E i \in 1..Len(xi.systems[_k(n)]) : xi.systems[_k(n)][i] = x}
    \cup {x \in UNION {{xi.addresses[a][i] : i \in 1..Len(xi.addresses[a])} :
                          a \in DOMAIN xi.addresses} :
             AddressOf(n) \in DOMAIN xi.addresses
             /\ \E i \in 1..Len(xi.addresses[AddressOf(n)]) : xi.addresses[AddressOf(n)][i] = x}

ChangesSystemRecord(e) ==
    \/ e.event \in {"Location", "FSDJump"}
    \/ e.event = "StartJump" /\ Get(e, "JumpType", NONE) = "Hyperspace"

\* C34: after a Location, FSDJump or hyperspace StartJump record the advisory
\* list holds the entries the store holds under the name of the new current
\* system, and no entry the store holds only under the name or the address
\* of another system, also when the record carries no SystemAddress.
PoisOfCurrentSystemOnly ==
    [][ ChangesSystemRecord(ev') =>
          /\ \A i \in 1..Len(state'.external_pois) :
                state'.external_pois[i] \in EntriesFor(external_intel, state'.system)
          /\ _k(state'.system) \in DOMAIN external_intel.systems =>
                \A i \in 1..Len(external_intel.systems[_k(state'.system)]) :
                   \E j \in 1..Len(state'.external_pois) :
                      state'.external_pois[j] = external_intel.systems[_k(state'.system)][i]
      ]_vars


-----------------------------------------------------------------------------
(* What a change of system leaves behind *)

\* no map keyed by a body holds an entry
NoBodyEntries(s) ==
    /\ s.bodies = EmptyDict /\ s.exo = EmptyDict /\ s.body_id_to_name = EmptyDict
    /\ s.bio_signals = EmptyDict /\ s.geo_signals = EmptyDict /\ s.bio_genuses = EmptyDict
    /\ s.saa_signals = EmptyDict
\* no contact, no current contact and no alert
NoCombatEntries(s) ==
    /\ s.combat_contacts = EmptyDict /\ s.combat_current_key = <<>>
    /\ s.pp_enemy_alerts = <<>> /\ s.current_contact_alert = NoAlert

\* C35: after a Location, FSDJump or hyperspace StartJump record that changes
\* the name of the current system, no map keyed by a body keeps an entry, the
\* raw DSS signal lists included, and no combat contact, current-contact
\* pointer or alert remains.
SystemChangeLeavesNothing ==
    [][ (ChangesSystemRecord(ev') /\ state'.system # state.system)
        => NoBodyEntries(state') /\ NoCombatEntries(state') ]_vars


-----------------------------------------------------------------------------
(* The hyperspace flag *)

\* C36: a StartJump record of type Hyperspace sets the hyperspace flag, and
\* after an FSDJump or Location record has been folded the flag is false.
ArrivalClearsHyperspace ==
    [][ /\ (ev'.event = "StartJump" /\ Get(ev', "JumpType", NONE) = "Hyperspace")
            => state'.in_hyperspace
        /\ ev'.event \in {"FSDJump", "Location"} => ~state'.in_hyperspace ]_vars


-----------------------------------------------------------------------------
(* The alert state after an alert *)

\* C37: immediately after a ShipTargeted record that produced an alert
\* notice, the current alert text is that notice and the alert list is the
\* one-element list holding it, whatever records came before, system changes
\* and target drops between two scans of one contact included.
AlertStateIsTheNotice ==
    [][ (ev'.event = "ShipTargeted" /\ msgs' # <<>>)
        => /\ state'.current_contact_alert = msgs'[1]
           /\ state'.pp_enemy_alerts = <<msgs'[1]>> ]_vars


-----------------------------------------------------------------------------
(* The current-contact pointer *)

IsTargetDrop(e) == e.event = "ShipTargeted" /\ Has(e, "TargetLocked") /\ e.TargetLocked = FALSE

-----------------------------------------------------------------------------
(* Sample progress and the completion flag *)

IsPlaceholder(rec) == Get(rec, "LastScanType", "") = "CODEX"

\* C39: in every state reachable from an empty exo mapping, each exo record
\* has sample progress in 0..3 and its completion flag is set exactly when
\* its progress is 3; a CODEX placeholder has progress 0 and is not complete.
ProgressAndFlagAgree ==
    \A k \in DOMAIN state.exo :
        LET rec == state.exo[k]
        IN /\ Has(rec, "Samples") /\ Has(rec, "Complete")
           /\ rec.Samples \in 0..3
           /\ rec.Complete = (rec.Samples = 3)
           /\ IsPlaceholder(rec) => (rec.Samples = 0 /\ ~rec.Complete)

\* a record completed by three samples beside a placeholder and a record
\* still in progress
CompleteBesidePlaceholder ==
    /\ \E k \in DOMAIN state.exo : IsPlaceholder(state.exo[k])
    /\ \E k \in DOMAIN state.exo :
          /\ state.exo[k].Samples = 3 /\ state.exo[k].Complete
          /\ state.exo[k].LastScanType = "Sample"
    /\ \E k \in DOMAIN state.exo :
          ~IsPlaceholder(state.exo[k]) /\ state.exo[k].Samples \in 1..2

-----------------------------------------------------------------------------
(* Arrival records that name the current system *)

\* the collections a repeated arrival record has to leave alone
ScanData(s) ==
    << s.bodies, s.exo, s.body_id_to_name, s.bio_signals, s.geo_signals, s.system_signals >>

NamesCurrentSystem(s, e) ==
    /\ e.event \in {"Location", "FSDJump"}
    /\ Has(e, "StarSystem") /\ e.StarSystem = s.system

\* C40: folding a Location or FSDJump record that names the current system
\* (a re-login or a repeated arrival record) leaves the bodies, the exo
\* records, the body-id-to-name map, the signal counts and the
\* discovered-signal list unchanged.
RepeatedArrivalKeepsScanData ==
    [][ NamesCurrentSystem(state, ev') => ScanData(state') = ScanData(state) ]_vars

\* a repeated arrival record was folded over collections that all hold
\* something
ArrivedAgainWithScanData ==
    /\ ev.event \in {"Location", "FSDJump"}
    /\ Has(ev, "StarSystem") /\ ev.StarSystem = state.system
    /\ nfold >= 2
    /\ state.bodies # EmptyDict /\ state.exo # EmptyDict
    /\ state.body_id_to_name # EmptyDict /\ state.bio_signals # EmptyDict
    /\ state.geo_signals # EmptyDict /\ state.system_signals # <<>>

====
